---- MODULE Spec2Model ----
(***************************************************************************)
(* A model of the valex validation library: the guarded value wrapper      *)
(* (validator.go) and the built-in validators (validators.go).             *)
(*                                                                         *)
(* A Validate result (ok bool, err error) is the record [ok, err]; an      *)
(* error is identified by its message format, the nil error by Nil.        *)
(***************************************************************************)
EXTENDS Integers, Sequences, FiniteSets, TLC

VARIABLES
    \* ValidatedValue[int]
    vvValue,        \* the unexported field value
    vvValidator,    \* the field Validator: NoValidator or a validator id
    vvRet,          \* what the last Set returned (NotCalled before any call)
    vvArg,          \* the argument of the last Set
    vvPrev,         \* Get() just before the last Set
    vvVerdict,      \* the verdict the validator gave in the last Set
    vvCalls,        \* number of Set calls so far (capped at MaxCalls)
    vvNilSeen,      \* some Set has returned nil since the validator was bound
    vvNilArg,       \* the argument of the most recent Set that returned nil
    vvOkSeen,       \* some Set had a true verdict since the validator was bound
    vvOkArg,        \* the argument of the most recent Set with a true verdict
    vvGot,          \* what the last Get returned
    vvStr,          \* what the last String returned
    \* CompositeValidator[int].Validate
    cvList,         \* the field Validators, a sequence of validator ids
    cvVal,          \* the candidate value
    cvCalls,        \* the validators invoked by the call, in invocation order
    cvOut,          \* the result of the call (Pending before it)
    \* pure validators: one call of Validate on a configured instance
    pvKind,         \* which validator the run exercises
    pvCfg,          \* its configuration (the struct's fields)
    pvIn,           \* the candidate value
    pvOut,          \* the result of the call (Pending before it)
    \* directives: one call of Handle on a configured instance
    hdOut,          \* what Handle returned (HandlePending before the call)
    \* the "val" tag and one call of ValidateStruct
    rgTable,        \* the directives registered on the package's tag
    rgRegistered,   \* the directives passed to RegisterDirective so far
    rgData,         \* the record passed to the last ValidateStruct call
    rgTags,         \* the tags the caller passed to it, in order
    rgOut,          \* what the call returned (StructPending before any call)
    rgEvals,        \* the (field path, tag key) pairs it evaluated, in order
    \* goroutines registering directives and validating at the same time
    lkTable,        \* the directives whose insertion into the table is complete
    lkPartial,      \* an insertion into the table is under way
    lkWriter,       \* the goroutine holding the table's write lock, or NoOne
    lkReaders,      \* the goroutines holding its read lock
    lkPc,           \* where each goroutine stands
    lkStart,        \* per validation: the registrations returned when it began
    lkSeen,         \* per validation: the table its lookup observed
    \* form binding of one tagged struct field
    fbField,        \* the field: its name, its kind and its `field` tag
    fbParams,       \* what the tag was written from: key, max, required, default
    fbValues,       \* the form's multimap (url.Values)
    fbBefore,       \* the field's value before binding
    fbAfter,        \* the field's value after binding
    fbKey,          \* the key looked up in the multimap (empty: no lookup)
    fbErr,          \* the error bindFormValues returned
    fbDone,         \* the binding has run
    \* ValidateForm on a request and a destination record
    fvDst,          \* the destination record as the caller passed it
    fvValues,       \* the request's form values (r.Form)
    fvPc,           \* where the call stands: start, made, bound, done
    fvAfter,        \* the destination record now (binding writes into it)
    fvBound,        \* the tagged fields binding has handled, in order
    fvData,         \* the record ProcessStruct was handed (empty: not called)
    fvEvals,        \* the (field path, tag key) pairs validation evaluated
    fvOut,          \* what FormValidator.Validate returned
    fvRet           \* what ValidateForm returned

vvVars == <<vvValue, vvValidator, vvRet, vvArg, vvPrev, vvVerdict, vvCalls,
            vvNilSeen, vvNilArg, vvOkSeen, vvOkArg, vvGot, vvStr>>
cvVars == <<cvList, cvVal, cvCalls, cvOut>>
pvVars == <<pvKind, pvCfg, pvIn, pvOut>>
hdVars == <<hdOut>>
rgVars == <<rgTable, rgRegistered, rgData, rgTags, rgOut, rgEvals>>
lkVars == <<lkTable, lkPartial, lkWriter, lkReaders, lkPc, lkStart, lkSeen>>
fbVars == <<fbField, fbParams, fbValues, fbBefore, fbAfter, fbKey, fbErr, fbDone>>
fvVars == <<fvDst, fvValues, fvPc, fvAfter, fvBound, fvData, fvEvals, fvOut, fvRet>>
yVars == <<rgVars, lkVars, fbVars, fvVars>>
xVars == <<hdVars, yVars>>
vars == <<vvVars, cvVars, pvVars, xVars>>

----------------------------------------------------------------------------
(* Bounds of the model. *)

MaxVal == 2             \* int candidates are -MaxVal .. MaxVal
MaxCalls == 3           \* Set calls counted per ValidatedValue
MaxValidators == 3      \* length of a CompositeValidator's list
MaxSegments == 3        \* "|"-separated segments of a raw `values` parameter
MaxVersion == 10        \* configured UUID versions are -1 .. MaxVersion

Values == (0 - MaxVal) .. MaxVal

----------------------------------------------------------------------------
(* Results and errors. *)

Nil == "<nil>"
Res(ok, err) == [ok |-> ok, err |-> err]
Pending == [ok |-> FALSE, err |-> "<pending>"]
NotCalled == "<not called>"
NoValidator == "<nil validator>"

\* A float64 is its IEEE 754 bit pattern: the sign bit, the 11 bits of the
\* exponent field and the 52 bits of the fraction, the fraction split into
\* its upper and lower 26 bits.
F64(sign, exp, hi, lo) == [sign |-> sign, exp |-> exp, hi |-> hi, lo |-> lo]
\* math.NaN() and math.Inf(sign)
NaN == F64(0, 2047, 33554432, 1)
Inf(sign) == F64(sign, 2047, 0, 0)
IsNaN(x) == x.exp = 2047 /\ (x.hi # 0 \/ x.lo # 0)
IsZeroFloat(x) == x.exp = 0 /\ x.hi = 0 /\ x.lo = 0

\* the order of the magnitudes of two float64 that are no NaN
MagLt(a, b) ==
    \/ a.exp < b.exp
    \/ a.exp = b.exp /\ (a.hi < b.hi \/ (a.hi = b.hi /\ a.lo < b.lo))

\* the Go operators < and == on float64: false when an operand is NaN, and
\* the two zeros equal
FloatLt(a, b) ==
    /\ ~IsNaN(a) /\ ~IsNaN(b)
    /\ ~(IsZeroFloat(a) /\ IsZeroFloat(b))
    /\ IF a.sign # b.sign THEN a.sign = 1
       ELSE IF a.sign = 0 THEN MagLt(a, b) ELSE MagLt(b, a)
FloatEq(a, b) ==
    /\ ~IsNaN(a) /\ ~IsNaN(b)
    /\ (IsZeroFloat(a) /\ IsZeroFloat(b)) \/ a = b

\* the Go operators ==, < and <= at the type T, "int" or "float64"
NumEq(T, a, b) == IF T = "float64" THEN FloatEq(a, b) ELSE a = b
NumLt(T, a, b) == IF T = "float64" THEN FloatLt(a, b) ELSE a < b
NumLe(T, a, b) == NumLt(T, a, b) \/ NumEq(T, a, b)

\* cmp.Less: (isNaN(x) && !isNaN(y)) || x < y, isNaN(x) being x != x
Less(T, a, b) ==
    IF T = "float64" THEN (IsNaN(a) /\ ~IsNaN(b)) \/ FloatLt(a, b)
    ELSE a < b

\* func validateRange[T](val, min, max, format)
BadValidateRange(T, val, min, max, format) ==
    IF Less(T, val, min) \/ ~Less(T, val, max) THEN Res(FALSE, format)
    ELSE Res(TRUE, Nil)

validateRange(T, val, min, max, format) ==
    IF Less(T, val, min) \/ Less(T, max, val) THEN Res(FALSE, format)
    ELSE Res(TRUE, Nil)

\* var zero T
ZeroOf(T) == IF T = "float64" THEN F64(0, 0, 0, 0) ELSE 0

\* func validateMin[T](val, min T, format)
validateMin(T, val, min, format) ==
    IF Less(T, val, min) THEN Res(FALSE, format) ELSE Res(TRUE, Nil)

\* func validateMax[T](val, max T, format)
validateMax(T, val, max, format) ==
    IF Less(T, max, val) THEN Res(FALSE, format) ELSE Res(TRUE, Nil)

\* func validateNonNegative[T](val, format)
validateNonNegative(T, val, format) ==
    IF Less(T, val, ZeroOf(T)) THEN Res(FALSE, format) ELSE Res(TRUE, Nil)

\* func validateNonPositive[T](val, format)
validateNonPositive(T, val, format) ==
    IF Less(T, ZeroOf(T), val) THEN Res(FALSE, format) ELSE Res(TRUE, Nil)

\* func (v *IntRangeValidator) Validate(val int)
IntRangeValidate(cfg, val) ==
    validateRange("int", val, cfg.Min, cfg.Max, "value %d is out of range [%d, %d]")

\* func (v *NonNegativeIntValidator) Validate(val int)
NonNegativeIntValidate(val) ==
    validateNonNegative("int", val, "value %d is a negative integer")

\* func (v *NonPositiveIntValidator) Validate(val int)
NonPositiveIntValidate(val) ==
    validateNonPositive("int", val, "value %d is a positive integer")

----------------------------------------------------------------------------
(* The Validator[int] implementations bound in the runs: three built-in    *)
(* validators and two ValidatorFunc adapters whose functions do not follow *)
(* the README's convention (a false verdict with a nil error; a true       *)
(* verdict with an error).                                                 *)

ValidatorIds == {"nonneg", "nonpos", "range01", "quiet", "noisy"}

\* Validator[T].Validate, dispatched on the dynamic type
Validate(id, val) ==
    CASE id = "nonneg"  -> NonNegativeIntValidate(val)
      [] id = "nonpos"  -> NonPositiveIntValidate(val)
      [] id = "range01" -> IntRangeValidate([Min |-> 0, Max |-> 1], val)
      [] id = "quiet"   -> Res(val = 0, Nil)
      [] id = "noisy"   -> Res(TRUE, "noisy: accepted with a warning")

----------------------------------------------------------------------------
(* fmt.Sprintf("%v", int): decimal digits, a leading "-" when negative.    *)

Digit(d) == CASE d = 0 -> "0" [] d = 1 -> "1" [] d = 2 -> "2" [] d = 3 -> "3"
              [] d = 4 -> "4" [] d = 5 -> "5" [] d = 6 -> "6" [] d = 7 -> "7"
              [] d = 8 -> "8" [] d = 9 -> "9"

RECURSIVE FormatNat(_)
FormatNat(n) == IF n < 10 THEN <<Digit(n)>>
                ELSE Append(FormatNat(n \div 10), Digit(n % 10))

FormatInt(n) == IF n < 0 THEN <<"-">> \o FormatNat(0 - n) ELSE FormatNat(n)

----------------------------------------------------------------------------
(* ValidatedValue[int] *)

\* The effect of Set(val) on a ValidatedValue holding `value` with Validator
\* `validator`: the value stored afterwards, the error returned, and the
\* verdict of the validator (FALSE when it was not consulted).
SetNoNilCheck(value, validator, val) ==
    IF validator = NoValidator
    THEN [value |-> val, ret |-> Nil, verdict |-> FALSE]
    ELSE LET r == Validate(validator, val) IN
         IF ~r.ok THEN [value |-> value, ret |-> r.err, verdict |-> FALSE]
         ELSE [value |-> val, ret |-> Nil, verdict |-> TRUE]

SetStoresFirst(value, validator, val) ==
    IF validator = NoValidator
    THEN [value |-> value, ret |-> "no validator set", verdict |-> FALSE]
    ELSE LET r == Validate(validator, val) IN
         IF ~r.ok THEN [value |-> val, ret |-> r.err, verdict |-> FALSE]
         ELSE [value |-> val, ret |-> Nil, verdict |-> TRUE]

SetEffect(value, validator, val) ==
    IF validator = NoValidator
    THEN [value |-> value, ret |-> "no validator set", verdict |-> FALSE]
    ELSE LET r == Validate(validator, val) IN
         IF ~r.ok THEN [value |-> value, ret |-> r.err, verdict |-> FALSE]
         ELSE [value |-> val, ret |-> Nil, verdict |-> TRUE]

\* func (v *ValidatedValue[T]) Set(val T) error
Set(val) ==
    /\ vvCalls < MaxCalls
    /\ LET e == SetEffect(vvValue, vvValidator, val) IN
        /\ vvValue' = e.value
        /\ vvRet' = e.ret
        /\ vvVerdict' = e.verdict
        /\ vvNilSeen' = (vvNilSeen \/ e.ret = Nil)
        /\ vvNilArg' = IF e.ret = Nil THEN val ELSE vvNilArg
        /\ vvOkSeen' = (vvOkSeen \/ e.verdict)
        /\ vvOkArg' = IF e.verdict THEN val ELSE vvOkArg
    /\ vvArg' = val
    /\ vvPrev' = vvValue
    /\ vvCalls' = vvCalls + 1
    /\ UNCHANGED <<vvValidator, vvGot, vvStr, cvVars, pvVars, xVars>>

\* func (v *ValidatedValue[T]) Get() T
Get ==
    /\ vvGot' = vvValue
    /\ UNCHANGED <<vvValue, vvValidator, vvRet, vvArg, vvPrev, vvVerdict, vvCalls,
                   vvNilSeen, vvNilArg, vvOkSeen, vvOkArg, vvStr, cvVars, pvVars, xVars>>

\* func (v *ValidatedValue[T]) String() string
String ==
    /\ vvStr' = FormatInt(vvValue)
    /\ UNCHANGED <<vvValue, vvValidator, vvRet, vvArg, vvPrev, vvVerdict, vvCalls,
                   vvNilSeen, vvNilArg, vvOkSeen, vvOkArg, vvGot, cvVars, pvVars, xVars>>

\* An assignment to the exported field Validator (nil included): the stored
\* value stays, the record of earlier calls starts afresh.
AssignValidator(w) ==
    /\ w # vvValidator
    /\ vvValidator' = w
    /\ vvRet' = NotCalled
    /\ vvVerdict' = FALSE
    /\ vvCalls' = 0
    /\ vvNilSeen' = FALSE
    /\ vvOkSeen' = FALSE
    /\ vvArg' = 0 /\ vvPrev' = vvValue /\ vvNilArg' = 0 /\ vvOkArg' = 0
    /\ UNCHANGED <<vvValue, vvGot, vvStr, cvVars, pvVars, xVars>>

cvIdle == /\ cvList = <<>> /\ cvVal = 0 /\ cvCalls = <<>> /\ cvOut = Pending
pvIdle == /\ pvKind = "none" /\ pvCfg = <<>> /\ pvIn = <<>> /\ pvOut = Pending
HandlePending == [val |-> <<>>, err |-> "<pending>"]
hdIdle == hdOut = HandlePending

\* errors of a ValidateStruct call: the class of the error, what it names
\* (the directive name or the directive's message), the field's path and
\* the key of the tag
Err(class, detail, path, key) ==
    [class |-> class, detail |-> detail, path |-> path, key |-> key]
NilErr == Err("<nil>", "", <<>>, "")
StructPending == [ok |-> FALSE, err |-> Err("<pending>", "", <<>>, "")]

rgIdle == /\ rgTable = {} /\ rgRegistered = {} /\ rgData = <<>> /\ rgTags = <<>>
          /\ rgOut = StructPending /\ rgEvals = <<>>
lkIdle == /\ lkTable = {} /\ lkPartial = FALSE /\ lkWriter = "" /\ lkReaders = {}
          /\ lkPc = <<>> /\ lkStart = <<>> /\ lkSeen = <<>>
fbIdle == /\ fbField = <<>> /\ fbParams = <<>> /\ fbValues = <<>> /\ fbBefore = <<>>
          /\ fbAfter = <<>> /\ fbKey = <<>> /\ fbErr = <<>> /\ fbDone = FALSE
fvIdle == /\ fvDst = <<>> /\ fvValues = <<>> /\ fvPc = "idle" /\ fvAfter = <<>>
          /\ fvBound = <<>> /\ fvData = <<>> /\ fvEvals = <<>> /\ fvOut = <<>>
          /\ fvRet = <<>>
yIdle == rgIdle /\ lkIdle /\ fbIdle /\ fvIdle
xIdle == hdIdle /\ yIdle

\* &ValidatedValue[int]{Validator: w}, or &ValidatedValue[int]{}
vvInit ==
    /\ vvValue = 0
    /\ vvValidator \in ValidatorIds \cup {NoValidator}
    /\ vvRet = NotCalled
    /\ vvArg = 0 /\ vvPrev = 0 /\ vvVerdict = FALSE /\ vvCalls = 0
    /\ vvNilSeen = FALSE /\ vvNilArg = 0 /\ vvOkSeen = FALSE /\ vvOkArg = 0
    /\ vvGot = 0 /\ vvStr = FormatInt(0)

vvIdle ==
    /\ vvValue = 0 /\ vvValidator = NoValidator /\ vvRet = NotCalled
    /\ vvArg = 0 /\ vvPrev = 0 /\ vvVerdict = FALSE /\ vvCalls = 0
    /\ vvNilSeen = FALSE /\ vvNilArg = 0 /\ vvOkSeen = FALSE /\ vvOkArg = 0
    /\ vvGot = 0 /\ vvStr = FormatInt(0)

InitVV == vvInit /\ cvIdle /\ pvIdle /\ xIdle

NextVV ==
    \/ \E val \in Values : Set(val)
    \/ Get
    \/ String
    \/ \E w \in ValidatorIds \cup {NoValidator} : AssignValidator(w)

SpecVV == InitVV /\ [][NextVV]_vars

\* C1: whenever the last Set consulted a bound validator whose verdict on the
\* argument is false, Set returned exactly that validator's error and the
\* stored value (what Get returns) is the one from before the call.
C1_RejectedSetLeavesValue ==
    (vvRet # NotCalled /\ vvValidator # NoValidator
        /\ ~Validate(vvValidator, vvArg).ok)
    => (vvRet = Validate(vvValidator, vvArg).err /\ vvValue = vvPrev)

\* a rejected Set of a new value over a stored non-zero value
C1_Witness ==
    /\ vvRet # NotCalled /\ vvValidator # NoValidator
    /\ ~Validate(vvValidator, vvArg).ok
    /\ vvRet # Nil /\ vvPrev # 0 /\ vvArg # vvPrev /\ vvValue = vvPrev

\* C2 (as claimed): once some Set has returned nil under the bound validator,
\* the stored value is accepted by that validator and is the argument of the
\* most recent Set that returned nil.
C2_StoredIsLastNilSet ==
    (vvValidator # NoValidator /\ vvNilSeen)
    => (Validate(vvValidator, vvValue).ok /\ vvValue = vvNilArg)

\* the part of C2 the code keeps: once the bound validator has given a true
\* verdict in some Set, the stored value is accepted by it and is the
\* argument of the most recent Set with a true verdict
StoredIsLastAcceptedSet ==
    (vvValidator # NoValidator /\ vvOkSeen)
    => (Validate(vvValidator, vvValue).ok /\ vvValue = vvOkArg)

\* C3: with a nil Validator every Set returns the non-nil error
\* "no validator set" and leaves the stored value as it was.
C3_NilValidatorSet ==
    (vvValidator = NoValidator /\ vvRet # NotCalled)
    => (vvRet = "no validator set" /\ vvRet # Nil /\ vvValue = vvPrev)

\* a second Set on a nil validator, over a value stored earlier
C3_Witness ==
    /\ vvValidator = NoValidator /\ vvCalls >= 2
    /\ vvRet = "no validator set"
    /\ vvValue # 0 /\ vvArg # vvValue

----------------------------------------------------------------------------
(* CompositeValidator[int] *)

\* The loop of Validate from position i on, `calls` being the positions of
\* the validators invoked so far.
RECURSIVE CompositeLoopNoStop(_, _, _, _, _)
CompositeLoopNoStop(list, val, i, calls, out) ==
    IF i > Len(list) THEN [out |-> out, calls |-> calls]
    ELSE LET r == Validate(list[i], val) IN
         CompositeLoopNoStop(list, val, i + 1, Append(calls, i),
                             IF ~r.ok THEN Res(FALSE, r.err) ELSE out)

RECURSIVE CompositeLoop(_, _, _, _)
CompositeLoop(list, val, i, calls) ==
    IF i > Len(list) THEN [out |-> Res(TRUE, Nil), calls |-> calls]
    ELSE LET r == Validate(list[i], val) IN
         IF ~r.ok THEN [out |-> Res(FALSE, r.err), calls |-> Append(calls, i)]
         ELSE CompositeLoop(list, val, i + 1, Append(calls, i))

CompositeNoStop(list, val) == CompositeLoopNoStop(list, val, 1, <<>>, Res(TRUE, Nil))

\* func (cv *CompositeValidator[T]) Validate(val T) (ok bool, err error)
CompositeValidate(list, val) == CompositeLoop(list, val, 1, <<>>)

CompositeCall ==
    /\ cvOut = Pending
    /\ LET c == CompositeValidate(cvList, cvVal) IN
        /\ cvOut' = c.out
        /\ cvCalls' = c.calls
    /\ UNCHANGED <<cvList, cvVal, vvVars, pvVars, xVars>>

\* all sequences over S of length at most n
RECURSIVE SeqsUpTo(_, _)
SeqsUpTo(S, n) ==
    IF n = 0 THEN {<<>>}
    ELSE LET shorter == SeqsUpTo(S, n - 1) IN
         shorter \cup {Append(q, x) : q \in shorter, x \in S}

InitCV ==
    /\ cvList \in SeqsUpTo(ValidatorIds, MaxValidators)
    /\ cvVal \in Values
    /\ cvCalls = <<>>
    /\ cvOut = Pending
    /\ vvIdle /\ pvIdle /\ xIdle

NextCV == CompositeCall

SpecCV == InitCV /\ [][NextCV]_vars

\* the positions of the list whose validator rejects the candidate
cvFailing == {i \in 1..Len(cvList) : ~Validate(cvList[i], cvVal).ok}
cvFirstFailing == CHOOSE i \in cvFailing : \A j \in cvFailing : i <= j

\* C4: a finished call has invoked the validators 1, 2, ... in list order up
\* to and including the first rejecting one and none after it; it returns
\* that validator's (false, err), and (true, nil) exactly when none rejects.
C4_CompositeFirstFailure ==
    cvOut # Pending =>
        /\ cvOut.ok = (cvFailing = {})
        /\ cvFailing = {} =>
              /\ cvOut = Res(TRUE, Nil)
              /\ cvCalls = [i \in 1..Len(cvList) |-> i]
        /\ cvFailing # {} =>
              /\ cvOut = Res(FALSE, Validate(cvList[cvFirstFailing], cvVal).err)
              /\ cvCalls = [i \in 1..cvFirstFailing |-> i]

\* a call whose first rejecting validator is followed by another rejecting
\* validator with a different error
C4_Witness ==
    /\ cvOut # Pending /\ ~cvOut.ok
    /\ \E j \in cvFailing : /\ j > cvFirstFailing
                            /\ Validate(cvList[j], cvVal).err # cvOut.err
    /\ cvFirstFailing > 1

----------------------------------------------------------------------------
(* One-of validators.  A string is a sequence of one-character strings.    *)

\* unicode.IsSpace: the white space of Unicode. A character is written as
\* itself or, where a string of the module cannot hold it, as the name of
\* its code point.
IsSpace(c) ==
    c \in {"\t", "\n", "U+000B", "\f", "\r", " ", "U+0085", "U+00A0", "U+1680",
           "U+2000", "U+2001", "U+2002", "U+2003", "U+2004", "U+2005",
           "U+2006", "U+2007", "U+2008", "U+2009", "U+200A", "U+2028",
           "U+2029", "U+202F", "U+205F", "U+3000"}

\* strings.TrimSpace
RECURSIVE TrimLeft(_)
TrimLeft(str) ==
    IF str # <<>> /\ IsSpace(Head(str)) THEN TrimLeft(Tail(str)) ELSE str

RECURSIVE TrimRight(_)
TrimRight(str) ==
    IF str # <<>> /\ IsSpace(str[Len(str)])
    THEN TrimRight(SubSeq(str, 1, Len(str) - 1)) ELSE str

TrimSpace(str) == TrimRight(TrimLeft(str))

\* strings.Split(raw, "|"): the text between the separators, empty parts kept
RECURSIVE Split(_)
Split(raw) ==
    IF \E i \in 1..Len(raw) : raw[i] = "|"
    THEN LET i == CHOOSE k \in 1..Len(raw) :
                    raw[k] = "|" /\ \A j \in 1..(k - 1) : raw[j] # "|"
         IN <<SubSeq(raw, 1, i - 1)>> \o Split(SubSeq(raw, i + 1, Len(raw)))
    ELSE <<raw>>

\* the loop of splitList over the parts: trim each, drop the empty ones
RECURSIVE KeepItems(_)
KeepItems(parts) ==
    IF parts = <<>> THEN <<>>
    ELSE LET item == TrimSpace(Head(parts)) IN
         IF item = <<>> THEN KeepItems(Tail(parts))
         ELSE <<item>> \o KeepItems(Tail(parts))

\* func splitList(raw string) []string
splitList(raw) == KeepItems(Split(raw))

IsDigit(c) == c \in {"0", "1", "2", "3", "4", "5", "6", "7", "8", "9"}
DigitVal(c) == CHOOSE d \in 0..9 : Digit(d) = c

RECURSIVE DecimalVal(_)
DecimalVal(str) ==
    IF str = <<>> THEN 0
    ELSE 10 * DecimalVal(SubSeq(str, 1, Len(str) - 1)) + DigitVal(str[Len(str)])

AllDigits(str) == str # <<>> /\ \A i \in 1..Len(str) : IsDigit(str[i])

HexDigits == {"0", "1", "2", "3", "4", "5", "6", "7", "8", "9",
              "a", "b", "c", "d", "e", "f", "A", "B", "C", "D", "E", "F"}

\* strings.ToLower on one character of ASCII
ToLower(c) ==
    CASE c = "A" -> "a" [] c = "B" -> "b" [] c = "C" -> "c" [] c = "D"
      -> "d" [] c = "E" -> "e" [] c = "F" -> "f" [] c = "G" -> "g" [] c
      = "H" -> "h" [] c = "I" -> "i" [] c = "J" -> "j" [] c = "K" -> "k"
      [] c = "L" -> "l" [] c = "M" -> "m" [] c = "N" -> "n" [] c = "O"
      -> "o" [] c = "P" -> "p" [] c = "Q" -> "q" [] c = "R" -> "r" [] c
      = "S" -> "s" [] c = "T" -> "t" [] c = "U" -> "u" [] c = "V" -> "v"
      [] c = "W" -> "w" [] c = "X" -> "x" [] c = "Y" -> "y" [] c = "Z"
      -> "z" [] OTHER -> c

\* strconv.ParseInt(c, 16, 0) on one lower-case hexadecimal digit
ParseHex(c) ==
    CASE c = "a" -> 10 [] c = "b" -> 11 [] c = "c" -> 12
      [] c = "d" -> 13 [] c = "e" -> 14 [] c = "f" -> 15
      [] OTHER -> DigitVal(c)

\* strings.Split(str, sep) for a one-character separator
RECURSIVE SplitOn(_, _)
SplitOn(str, sep) ==
    IF \E i \in 1..Len(str) : str[i] = sep
    THEN LET i == CHOOSE k \in 1..Len(str) :
                    str[k] = sep /\ \A j \in 1..(k - 1) : str[j] # sep
         IN <<SubSeq(str, 1, i - 1)>> \o SplitOn(SubSeq(str, i + 1, Len(str)), sep)
    ELSE <<str>>

\* strconv.Atoi: an optional sign and decimal digits; [ok, val]
Atoi(str) ==
    IF AllDigits(str) THEN [ok |-> TRUE, val |-> DecimalVal(str)]
    ELSE IF str # <<>> /\ Head(str) \in {"+", "-"} /\ AllDigits(Tail(str))
    THEN [ok |-> TRUE,
          val |-> IF Head(str) = "-" THEN 0 - DecimalVal(Tail(str))
                  ELSE DecimalVal(Tail(str))]
    ELSE [ok |-> FALSE, val |-> 0]

\* Natural numbers of any size, for the exact value of a float text: the
\* digits to the base 10000, the lowest first, and no zero at the top.
bigTrim(a) ==
    IF \A i \in 1..Len(a) : a[i] = 0 THEN <<>>
    ELSE SubSeq(a, 1, CHOOSE k \in 1..Len(a) :
                          a[k] # 0 /\ \A j \in (k + 1)..Len(a) : a[j] = 0)

\* the digits of the sums t, each below twice the base: a carry enters at i
\* from a sum of the base or more below it, through sums one short of it
bigCarry(t) ==
    bigTrim(SubSeq([i \in 1..Len(t) |->
                       (t[i] + IF \E j \in 1..(i - 1) :
                                     /\ t[j] >= 10000
                                     /\ \A l \in (j + 1)..(i - 1) : t[l] >= 9999
                               THEN 1 ELSE 0) % 10000],
                   1, Len(t)))

\* a * k + carry, for k <= 8192 and carry < 10000
bigMul(a, k, carry) ==
    IF a = <<>> THEN (IF carry = 0 THEN <<>> ELSE <<carry>>)
    ELSE bigCarry(SubSeq([i \in 1..(Len(a) + 1) |->
                    (IF i > Len(a) THEN 0
                     ELSE (a[i] * k + IF i = 1 THEN carry ELSE 0) % 10000)
                    + (IF i = 1 THEN 0
                       ELSE (a[i - 1] * k + IF i = 2 THEN carry ELSE 0) \div 10000)],
                   1, Len(a) + 1))

\* -1, 0 or 1 as a is below, equal to or above b
bigCmp(a, b) ==
    IF Len(a) < Len(b) THEN 0 - 1
    ELSE IF Len(a) > Len(b) THEN 1
    ELSE IF \E i \in 1..Len(a) :
               a[i] < b[i] /\ \A j \in (i + 1)..Len(a) : a[j] = b[j]
    THEN 0 - 1
    ELSE IF \A i \in 1..Len(a) : a[i] = b[i] THEN 0
    ELSE 1

\* the digits of the differences d: a borrow enters at i from a difference
\* below zero below it, through differences of zero
bigBorrow(d) ==
    bigTrim(SubSeq([i \in 1..Len(d) |->
                       (d[i] + 10000
                        - IF \E j \in 1..(i - 1) :
                                /\ d[j] < 0
                                /\ \A l \in (j + 1)..(i - 1) : d[l] <= 0
                          THEN 1 ELSE 0) % 10000],
                   1, Len(d)))

\* a - b, for a >= b
bigSub(a, b) ==
    bigBorrow(SubSeq([i \in 1..Len(a) |->
                         a[i] - IF i <= Len(b) THEN b[i] ELSE 0],
                     1, Len(a)))

\* the number written by the digits digs to the base base (10 or 16)
RECURSIVE bigFromDigits(_, _, _)
bigFromDigits(digs, base, acc) ==
    IF digs = <<>> THEN acc
    ELSE IF acc = <<>> /\ Head(digs) = "0" THEN bigFromDigits(Tail(digs), base, acc)
    ELSE bigFromDigits(Tail(digs), base,
                       bigMul(acc, base, ParseHex(ToLower(Head(digs)))))

\* a * 10^n
bigMulPow10(a, n) ==
    IF a = <<>> THEN <<>>
    ELSE bigMul([i \in 1..(n \div 4) |-> 0] \o a,
                CASE n % 4 = 0 -> 1 [] n % 4 = 1 -> 10 [] n % 4 = 2 -> 100
                  [] OTHER -> 1000,
                0)

\* One step that brings the quotient s.N/s.Q times 2^s.e nearer to
\* 1 <= N/Q < 2: Q is doubled while N >= 2Q and N is doubled while N < Q, 13
\* doublings at a time while they fit.
scaled(s) == bigCmp(s.N, s.Q) >= 0 /\ bigCmp(s.N, bigMul(s.Q, 2, 0)) < 0
scaleStep(s) ==
    IF bigCmp(s.N, bigMul(s.Q, 8192, 0)) >= 0
    THEN [N |-> s.N, Q |-> bigMul(s.Q, 8192, 0), e |-> s.e + 13]
    ELSE IF bigCmp(s.N, bigMul(s.Q, 2, 0)) >= 0
    THEN [N |-> s.N, Q |-> bigMul(s.Q, 2, 0), e |-> s.e + 1]
    ELSE IF bigCmp(bigMul(s.N, 8192, 0), s.Q) < 0
    THEN [N |-> bigMul(s.N, 8192, 0), Q |-> s.Q, e |-> s.e - 13]
    ELSE IF bigCmp(s.N, s.Q) < 0
    THEN [N |-> bigMul(s.N, 2, 0), Q |-> s.Q, e |-> s.e - 1]
    ELSE s
\* up to n steps, the second half of them after the first
RECURSIVE scale(_, _)
scale(n, s) ==
    IF scaled(s) THEN s
    ELSE IF n <= 1 THEN scaleStep(s)
    ELSE scale(n - n \div 2, scale(n \div 2, s))

\* One bit of r/Q, s.r2 being twice r: the bit is 1 when 2r >= Q, and the
\* remainder goes on doubled. The bits found are the number
\* s.hi * 2^26 + s.lo.
bitStep(s, Q) ==
    IF bigCmp(s.r2, Q) >= 0
    THEN [r2 |-> bigMul(bigSub(s.r2, Q), 2, 0),
          hi |-> 2 * s.hi + (2 * s.lo + 1) \div 67108864,
          lo |-> (2 * s.lo + 1) % 67108864]
    ELSE [r2 |-> bigMul(s.r2, 2, 0),
          hi |-> 2 * s.hi + (2 * s.lo) \div 67108864,
          lo |-> (2 * s.lo) % 67108864]
\* the next n bits, the second half of them after the first, and none
\* beyond the 53 of a significand
RECURSIVE fracBits(_, _, _)
fracBits(n, s, Q) ==
    IF n <= 0 \/ s.hi >= 67108864 THEN s
    ELSE IF n = 1 THEN bitStep(s, Q)
    ELSE fracBits(n - n \div 2, fracBits(n \div 2, s, Q), Q)

\* the float64 one step above x in magnitude; the step from the largest
\* finite value gives the pattern of infinity
NextUp(x) ==
    IF x.lo + 1 < 67108864 THEN [x EXCEPT !.lo = x.lo + 1]
    ELSE IF x.hi + 1 < 67108864 THEN [x EXCEPT !.lo = 0, !.hi = x.hi + 1]
    ELSE [x EXCEPT !.lo = 0, !.hi = 0, !.exp = x.exp + 1]

\* the significand f.hi * 2^26 + f.lo, the bits beyond it being r/Q with
\* f.r2 = 2r, rounded to the nearest float64 and to the even one of two
\* equally near; E is the exponent field of a value in the normal range,
\* where the leading one of the 53 bits counts into the exponent field
roundBits(sign, E, f, c) ==
    IF c > 0 \/ (c = 0 /\ f.lo % 2 = 1)
    THEN NextUp(F64(sign, (IF E >= 1 THEN E - 1 ELSE 0) + f.hi \div 67108864,
                    f.hi % 67108864, f.lo))
    ELSE F64(sign, (IF E >= 1 THEN E - 1 ELSE 0) + f.hi \div 67108864,
             f.hi % 67108864, f.lo)

\* the float64 nearest to N/Q times 2^e, for 1 <= N/Q < 2: 52 bits follow
\* the leading one in the normal range, fewer below it; a value below half
\* of the smallest float64, or equal to it, is zero
fromBits(sign, E, f, Q) == roundBits(sign, E, f, bigCmp(f.r2, Q))
fromScaled(sign, N, Q, E) ==
    IF E >= 2047 THEN Inf(sign)
    ELSE IF E < 0 - 52 THEN F64(sign, 0, 0, 0)
    ELSE IF E = 0 - 52
    THEN F64(sign, 0, 0, IF bigCmp(N, Q) > 0 THEN 1 ELSE 0)
    ELSE fromBits(sign, E,
                  fracBits(IF E >= 1 THEN 52 ELSE 51 + E,
                           [r2 |-> bigMul(bigSub(N, Q), 2, 0), hi |-> 0, lo |-> 1],
                           Q),
                  Q)

fromScale(sign, sc) == fromScaled(sign, sc.N, sc.Q, sc.e + 1023)

\* the float64 nearest to D * base^k, base 10 or 2, for a number D > 0 of
\* nd digits in the text
fromRatio(sign, D, nd, base, k) ==
    fromScale(sign,
        scale(128 + nd,
              IF base = 2 THEN [N |-> D, Q |-> <<1>>, e |-> k]
              ELSE IF k >= 0 THEN [N |-> bigMulPow10(D, k), Q |-> <<1>>, e |-> 0]
              ELSE [N |-> D, Q |-> bigMulPow10(<<1>>, 0 - k), e |-> 0]))

\* special: "nan" without a sign and "inf" or "infinity" with or without,
\* in any letter case
LowerText(str) == [i \in 1..Len(str) |-> ToLower(str[i])]
FloatBody(str) == IF str # <<>> /\ Head(str) \in {"+", "-"} THEN Tail(str) ELSE str
FloatSign(str) == IF str # <<>> /\ Head(str) = "-" THEN 1 ELSE 0
IsInfText(str) ==
    LowerText(FloatBody(str)) \in {<<"i", "n", "f">>,
                                   <<"i", "n", "f", "i", "n", "i", "t", "y">>}
IsNaNText(str) == LowerText(str) = <<"n", "a", "n">>

\* readFloat: the base prefix
HasHexPrefix(body) == Len(body) > 2 /\ body[1] = "0" /\ ToLower(body[2]) = "x"
IsBaseDigit(c, hex) ==
    IsDigit(c) \/ (hex /\ ToLower(c) \in {"a", "b", "c", "d", "e", "f"})

\* the mantissa ends before the first character that is no digit of the
\* base, no underscore and no first period
MantEnd(m, hex) ==
    CHOOSE k \in 1..(Len(m) + 1) :
        /\ \A i \in 1..(k - 1) :
              \/ IsBaseDigit(m[i], hex) \/ m[i] = "_"
              \/ m[i] = "." /\ \A j \in 1..(i - 1) : m[j] # "."
        /\ k <= Len(m) =>
              ~(\/ IsBaseDigit(m[k], hex) \/ m[k] = "_"
                \/ m[k] = "." /\ \A j \in 1..(k - 1) : m[j] # ".")

\* the digits of a text, its underscores and its period left out
OnlyDigits(str) == SelectSeq(str, LAMBDA c : c \notin {"_", "."})
\* the number of digits after the period
FracDigits(mant) ==
    IF \E i \in 1..Len(mant) : mant[i] = "."
    THEN Len(OnlyDigits(SubSeq(mant, CHOOSE i \in 1..Len(mant) : mant[i] = ".",
                               Len(mant))))
    ELSE 0

\* the exponent: an optional sign, a digit, then digits and underscores
ExpOk(x) ==
    /\ FloatBody(x) # <<>> /\ IsDigit(Head(FloatBody(x)))
    /\ \A i \in 1..Len(FloatBody(x)) :
          IsDigit(FloatBody(x)[i]) \/ FloatBody(x)[i] = "_"
\* its value: a digit counts while the value is below 10000
RECURSIVE ExpAbs(_, _)
ExpAbs(digs, e) ==
    IF digs = <<>> THEN e
    ELSE ExpAbs(Tail(digs), IF e < 10000 THEN e * 10 + DigitVal(Head(digs)) ELSE e)
ExpVal(x) ==
    IF FloatSign(x) = 1 THEN 0 - ExpAbs(OnlyDigits(FloatBody(x)), 0)
    ELSE ExpAbs(OnlyDigits(FloatBody(x)), 0)

\* underscoreOK: an underscore stands between two digits, or between a base
\* prefix and a digit
underscoreOK(str) ==
    LET body == FloatBody(str)
        pre == Len(body) >= 2 /\ body[1] = "0" /\ ToLower(body[2]) \in {"b", "o", "x"}
        hex == pre /\ ToLower(body[2]) = "x"
        t == IF pre THEN SubSeq(body, 3, Len(body)) ELSE body
    IN \A i \in 1..Len(t) :
          t[i] = "_" =>
              /\ (i = 1 /\ pre) \/ (i > 1 /\ IsBaseDigit(t[i - 1], hex))
              /\ i < Len(t) /\ IsBaseDigit(t[i + 1], hex)

\* the parts of a float text: [ok, hex, digs, frac, e], ok telling that the
\* whole text is a number
readFloat(str) ==
    LET body == FloatBody(str)
        hex == HasHexPrefix(body)
        m == IF hex THEN SubSeq(body, 3, Len(body)) ELSE body
        k == MantEnd(m, hex)
        mant == SubSeq(m, 1, k - 1)
        rest == SubSeq(m, k, Len(m))
        hasExp == rest # <<>> /\ ToLower(Head(rest)) = (IF hex THEN "p" ELSE "e")
    IN [ok |-> /\ OnlyDigits(mant) # <<>>
               /\ IF rest = <<>> THEN ~hex
                  ELSE hasExp /\ ExpOk(Tail(rest))
               /\ (\E i \in 1..Len(str) : str[i] = "_") => underscoreOK(str),
        hex |-> hex,
        digs |-> OnlyDigits(mant),
        frac |-> FracDigits(mant),
        e |-> IF hasExp /\ ExpOk(Tail(rest)) THEN ExpVal(Tail(rest)) ELSE 0]

\* the number of digits of a text after its leading zeros
Significant(digs) ==
    IF \A i \in 1..Len(digs) : digs[i] = "0" THEN 0
    ELSE Len(digs) + 1 - CHOOSE k \in 1..Len(digs) :
                             digs[k] # "0" /\ \A j \in 1..(k - 1) : digs[j] = "0"

\* the float64 of the parts D * base^k: zero for a zero mantissa; a value
\* of 10^309 or 2^1024 and above is out of range, one below 10^-330 or
\* 2^-1075 is zero, before any arithmetic
atof(sign, num, D) ==
    LET sig == Significant(num.digs)
        k == IF num.hex THEN num.e - 4 * num.frac ELSE num.e - num.frac
    IN IF D = <<>> THEN F64(sign, 0, 0, 0)
       ELSE IF ~num.hex /\ sig + k > 309 THEN Inf(sign)
       ELSE IF ~num.hex /\ sig + k < 0 - 330 THEN F64(sign, 0, 0, 0)
       ELSE IF num.hex /\ 4 * (sig - 1) + k >= 1024 THEN Inf(sign)
       ELSE IF num.hex /\ 4 * sig + k < 0 - 1075 THEN F64(sign, 0, 0, 0)
       ELSE fromRatio(sign, D, Len(num.digs), IF num.hex THEN 2 ELSE 10, k)

\* strconv.ParseFloat(str, 64): [ok, val]; ok is false on a syntax error and
\* on a value out of range
inRange(val) == [ok |-> val.exp # 2047, val |-> val]
parseFloatNum(sign, num) ==
    IF ~num.ok THEN [ok |-> FALSE, val |-> F64(0, 0, 0, 0)]
    ELSE inRange(atof(sign, num,
                      bigFromDigits(num.digs, IF num.hex THEN 16 ELSE 10, <<>>)))
ParseFloat(str) ==
    IF IsNaNText(str) THEN [ok |-> TRUE, val |-> NaN]
    ELSE IF IsInfText(str) THEN [ok |-> TRUE, val |-> Inf(FloatSign(str))]
    ELSE parseFloatNum(FloatSign(str), readFloat(str))

\* float64(n) of an int constant
Float64(n) == ParseFloat(FormatInt(n)).val

\* the float64 bounds and candidates of the runs: the whole numbers of the
\* int runs and NaN, and among the candidates the infinities, the negative
\* zero and 1.5 as well
FloatOf == [n \in (0 - MaxVal - 2)..(MaxVal + 2) |-> Float64(n)]
FloatValues == {FloatOf[n] : n \in (0 - MaxVal)..MaxVal} \cup {NaN}
FloatCandidates ==
    {FloatOf[n] : n \in (0 - MaxVal - 1)..(MaxVal + 1)}
    \cup {NaN, Inf(0), Inf(1), F64(1, 0, 0, 0), ParseFloat(<<"1", ".", "5">>).val}

\* the conversion loop of OneOfIntValidator.ConvertParam and
\* OneOfFloat64Validator.ConvertParam: [err, vals]
RECURSIVE ConvertItems(_, _, _)
ConvertItems(items, float, vals) ==
    IF items = <<>> THEN [err |-> Nil, vals |-> vals]
    ELSE LET r == IF float THEN ParseFloat(Head(items)) ELSE Atoi(Head(items)) IN
         IF ~r.ok
         THEN [err |-> IF float THEN "invalid float %q" ELSE "invalid int %q",
               vals |-> <<>>]
         ELSE ConvertItems(Tail(items), float, Append(vals, r.val))

\* slices.Contains on []int and []float64: == on numbers
ContainsNum(T, values, val) == \E i \in 1..Len(values) : NumEq(T, values[i], val)

\* slices.Contains on []string
ContainsStr(values, val) == \E i \in 1..Len(values) : values[i] = val

EmptyValuesErr == "value of parameter \"values\" cannot be empty"

\* func validateOneOf(val, values, emptyErr, format), on numbers
validateOneOfNoEmptyCheck(T, val, values, emptyErr, format) ==
    IF ContainsNum(T, values, val) THEN Res(TRUE, Nil) ELSE Res(FALSE, format)

validateOneOf(T, val, values, emptyErr, format) ==
    IF Len(values) = 0 THEN Res(FALSE, emptyErr)
    ELSE IF ContainsNum(T, values, val) THEN Res(TRUE, Nil)
    ELSE Res(FALSE, format)

\* func validateOneOf(val, values, emptyErr, format), on strings
validateOneOfStr(val, values, emptyErr, format) ==
    IF Len(values) = 0 THEN Res(FALSE, emptyErr)
    ELSE IF ContainsStr(values, val) THEN Res(TRUE, Nil)
    ELSE Res(FALSE, format)

\* func (v *OneOfIntValidator) Validate(val int)
OneOfIntValidate(cfg, val) ==
    validateOneOf("int", val, cfg.Values, EmptyValuesErr, "value %d is not in allowed set")

\* func (v *OneOfFloat64Validator) Validate(val float64)
OneOfFloat64Validate(cfg, val) ==
    validateOneOf("float64", val, cfg.Values, EmptyValuesErr, "value %g is not in allowed set")

\* func (v *OneOfStringValidator) Validate(val string)
OneOfStringValidate(cfg, val) ==
    validateOneOfStr(val, cfg.Values, EmptyValuesErr, "value %q is not in allowed set")

\* The instance under configuration: raw is the tag's `values` text, conv the
\* outcome of ConvertParam (ConvPending before it ran), Values the field.
ConvPending == "<not converted>"

\* tagex.NewConversionError(field, raw, want): the error of a ConvertParam
\* handed a field of another type
ConversionError == "tagex.ConversionError"

\* func (v *OneOfIntValidator) ConvertParam(field, fieldValue, raw),
\* isSlice telling whether fieldValue is a []int
OneOfIntConvertParam ==
    /\ pvKind = "oneofint" /\ pvCfg.conv = ConvPending
    /\ \E isSlice \in BOOLEAN :
          LET c == ConvertItems(splitList(pvCfg.raw), FALSE, <<>>) IN
          pvCfg' = [pvCfg EXCEPT
                       !.conv = IF isSlice THEN c.err ELSE ConversionError,
                       !.Values = IF isSlice /\ c.err = Nil THEN c.vals ELSE @]
    /\ UNCHANGED <<pvKind, pvIn, pvOut, vvVars, cvVars, xVars>>

\* func (v *OneOfFloat64Validator) ConvertParam(field, fieldValue, raw),
\* isSlice telling whether fieldValue is a []float64
OneOfFloat64ConvertParam ==
    /\ pvKind = "oneoffloat" /\ pvCfg.conv = ConvPending
    /\ \E isSlice \in BOOLEAN :
          LET c == ConvertItems(splitList(pvCfg.raw), TRUE, <<>>) IN
          pvCfg' = [pvCfg EXCEPT
                       !.conv = IF isSlice THEN c.err ELSE ConversionError,
                       !.Values = IF isSlice /\ c.err = Nil THEN c.vals ELSE @]
    /\ UNCHANGED <<pvKind, pvIn, pvOut, vvVars, cvVars, xVars>>

\* func (v *OneOfStringValidator) ConvertParam(field, fieldValue, raw),
\* isSlice telling whether fieldValue is a []string
OneOfStringConvertParam ==
    /\ pvKind = "oneof" /\ pvCfg.conv = ConvPending
    /\ \E isSlice \in BOOLEAN :
          pvCfg' = [pvCfg EXCEPT
                       !.conv = IF isSlice THEN Nil ELSE ConversionError,
                       !.Values = IF isSlice THEN splitList(pvCfg.raw) ELSE @]
    /\ UNCHANGED <<pvKind, pvIn, pvOut, vvVars, cvVars, xVars>>

\* Validate runs on an instance whose parameter converted without error
OneOfIntCall ==
    /\ pvKind = "oneofint" /\ pvCfg.conv = Nil /\ pvOut = Pending
    /\ pvOut' = OneOfIntValidate(pvCfg, pvIn)
    /\ UNCHANGED <<pvKind, pvCfg, pvIn, vvVars, cvVars, xVars>>

OneOfFloat64Call ==
    /\ pvKind = "oneoffloat" /\ pvCfg.conv = Nil /\ pvOut = Pending
    /\ pvOut' = OneOfFloat64Validate(pvCfg, pvIn)
    /\ UNCHANGED <<pvKind, pvCfg, pvIn, vvVars, cvVars, xVars>>

OneOfStringCall ==
    /\ pvKind = "oneof" /\ pvCfg.conv = Nil /\ pvOut = Pending
    /\ pvOut' = OneOfStringValidate(pvCfg, pvIn)
    /\ UNCHANGED <<pvKind, pvCfg, pvIn, vvVars, cvVars, xVars>>

Str1(a) == <<a>>
Str3(a, b, c) == <<a, b, c>>

\* the segments a raw `values` text is put together from
Segments == {<<>>, Str1(" "), Str1("1"), Str3("\t", "2", " "),
             Str3("N", "a", "N"), Str1("x"), Str3("2", ".", "5"),
             Str3("1", "e", "0")}

\* the `values` text of the repository's test of the float64 validator
TestValues == <<"1", ".", "5", "|", "2", ".", "5", "|", "3", ".", "5">>

\* segments joined by "|"
RECURSIVE RawTexts(_)
RawTexts(n) ==
    IF n = 1 THEN Segments
    ELSE RawTexts(n - 1)
         \cup {r \o <<"|">> \o g : r \in RawTexts(n - 1), g \in Segments}

InitOneOf ==
    /\ pvKind \in {"oneofint", "oneoffloat", "oneof"}
    /\ \/ pvCfg \in [raw : RawTexts(MaxSegments) \cup {TestValues},
                     conv : {ConvPending}, Values : {<<>>}]
       \/ pvCfg = [raw |-> <<>>, conv |-> Nil, Values |-> <<>>]
    /\ pvIn \in CASE pvKind = "oneofint" -> {0, 1, 2}
                  [] pvKind = "oneoffloat" ->
                        {FloatOf[1], FloatOf[2], NaN,
                         ParseFloat(<<"2", ".", "5">>).val}
                  [] pvKind = "oneof" ->
                        {<<>>, Str1("1"), Str1("2"), Str1("x"), Str3("N", "a", "N")}
    /\ pvOut = Pending
    /\ vvIdle /\ cvIdle /\ xIdle

NextOneOf ==
    \/ OneOfIntConvertParam
    \/ OneOfFloat64ConvertParam
    \/ OneOfStringConvertParam
    \/ OneOfIntCall
    \/ OneOfFloat64Call
    \/ OneOfStringCall

SpecOneOf == InitOneOf /\ [][NextOneOf]_vars

OneOfDone == pvKind \in {"oneofint", "oneoffloat", "oneof"} /\ pvOut # Pending
IsElement(values, val) == \E i \in 1..Len(values) : values[i] = val

\* C6 (as claimed): with a non-empty allowed list the verdict is true exactly
\* when the candidate is an element of the list; with an empty list the call
\* fails with the "values cannot be empty" error.
C6_OneOfMembership ==
    OneOfDone =>
        /\ Len(pvCfg.Values) > 0 => pvOut.ok = IsElement(pvCfg.Values, pvIn)
        /\ Len(pvCfg.Values) = 0 => pvOut = Res(FALSE, EmptyValuesErr)

\* the raw text holds nothing but separators and blanks
OnlyBlanks(raw) == \A i \in 1..Len(raw) : raw[i] = "|" \/ IsSpace(raw[i])

\* C6 (amended): as claimed, except that a NaN candidate is rejected by the
\* float64 validator even when NaN is in the list: the verdict is true
\* exactly when the candidate compares equal (==) to an entry of the list.  A
\* `values` text of separators and blanks only gives the empty list, and the
\* empty list fails with the "values cannot be empty" error, never with the
\* membership error.
C6_OneOfMembershipNoNaN ==
    OneOfDone =>
        /\ (Len(pvCfg.Values) > 0 /\ ~(pvKind = "oneoffloat" /\ IsNaN(pvIn)))
              => /\ pvOut.ok = IsElement(pvCfg.Values, pvIn)
                 /\ pvOut.ok => pvOut.err = Nil
                 /\ ~pvOut.ok => pvOut.err \notin {Nil, EmptyValuesErr}
        /\ (Len(pvCfg.Values) > 0 /\ pvKind = "oneoffloat" /\ IsNaN(pvIn))
              => ~pvOut.ok /\ pvOut.err \notin {Nil, EmptyValuesErr}
        /\ Len(pvCfg.Values) = 0 => pvOut = Res(FALSE, EmptyValuesErr)
        /\ OnlyBlanks(pvCfg.raw) => pvOut = Res(FALSE, EmptyValuesErr)

\* a `values` text holding separators and blanks only, converted and then
\* validated against
C6_Witness ==
    /\ OneOfDone /\ pvKind = "oneofint"
    /\ \E i \in 1..Len(pvCfg.raw) : pvCfg.raw[i] = "|"
    /\ pvCfg.Values = <<>> /\ pvOut = Res(FALSE, EmptyValuesErr)

\* the repository's test of the float64 validator: the text converts to the
\* three values 1.5, 2.5 and 3.5, and the candidate 2.5 is accepted
OneOfFloatTestPasses ==
    (pvKind = "oneoffloat" /\ pvCfg.raw = TestValues
        /\ pvCfg.conv \notin {ConvPending, ConversionError})
    => /\ pvCfg.conv = Nil
       /\ pvCfg.Values = <<F64(0, 1023, 33554432, 0), F64(0, 1024, 16777216, 0),
                           F64(0, 1024, 50331648, 0)>>
       /\ (pvOut # Pending /\ pvIn = F64(0, 1024, 16777216, 0))
             => pvOut = Res(TRUE, Nil)

----------------------------------------------------------------------------
(* Range validators: one Validate call on a configured instance. *)

\* func (v *CmpRangeValidator[T]) Validate(val T), at T = float64
CmpRangeValidate(cfg, val) ==
    validateRange("float64", val, cfg.Min, cfg.Max, "value %v is out of range [%v, %v]")

\* candidates reach one past the configurable bounds on either side
Candidates == (0 - MaxVal - 1) .. (MaxVal + 1)

IntRangeCall ==
    /\ pvKind = "intrange" /\ pvOut = Pending
    /\ pvOut' = IntRangeValidate(pvCfg, pvIn)
    /\ UNCHANGED <<pvKind, pvCfg, pvIn, vvVars, cvVars, xVars>>

CmpRangeCall ==
    /\ pvKind = "cmprange" /\ pvOut = Pending
    /\ pvOut' = CmpRangeValidate(pvCfg, pvIn)
    /\ UNCHANGED <<pvKind, pvCfg, pvIn, vvVars, cvVars, xVars>>

InitRange ==
    /\ \/ /\ pvKind = "intrange"
          /\ pvCfg \in [Min : Values, Max : Values]
          /\ pvIn \in Candidates
       \/ /\ pvKind = "cmprange"
          /\ pvCfg \in [Min : FloatValues, Max : FloatValues]
          /\ pvIn \in FloatCandidates
    /\ pvOut = Pending
    /\ vvIdle /\ cvIdle /\ xIdle

NextRange == IntRangeCall \/ CmpRangeCall

SpecRange == InitRange /\ [][NextRange]_vars

\* the type T of the instance of a run, and the value n at it
RangeType == IF pvKind = "cmprange" THEN "float64" ELSE "int"
At(T, n) == IF T = "float64" THEN FloatOf[n] ELSE n

\* C5: with Min <= Max configured, the verdict of IntRangeValidator and of
\* CmpRangeValidator is true exactly when Min <= v <= Max; so Min and Max are
\* accepted and Min-1 and Max+1 are rejected.
C5_RangeInclusive ==
    (pvKind \in {"intrange", "cmprange"} /\ pvOut # Pending
        /\ NumLe(RangeType, pvCfg.Min, pvCfg.Max))
    => /\ pvOut.ok = (/\ NumLe(RangeType, pvCfg.Min, pvIn)
                      /\ NumLe(RangeType, pvIn, pvCfg.Max))
       /\ pvIn \in {pvCfg.Min, pvCfg.Max} => pvOut.ok
       /\ \A n \in Values :
             (\/ pvCfg.Min = At(RangeType, n) /\ pvIn = At(RangeType, n - 1)
              \/ pvCfg.Max = At(RangeType, n) /\ pvIn = At(RangeType, n + 1))
             => ~pvOut.ok

\* the upper bound itself, in a range of more than one value, is accepted
C5_Witness ==
    /\ pvKind = "intrange" /\ pvOut # Pending
    /\ pvCfg.Min < pvCfg.Max /\ pvIn = pvCfg.Max /\ pvOut.ok

----------------------------------------------------------------------------
(* IPRangeValidator.  A net.IP is its byte sequence; the nil IP is <<>>.   *)

NilIP == <<>>

Zeros(n) == [i \in 1..n |-> 0]
v4InV6Prefix == Zeros(10) \o <<255, 255>>

\* net.IP.To4
To4(ip) ==
    IF Len(ip) = 4 THEN ip
    ELSE IF Len(ip) = 16 /\ SubSeq(ip, 1, 12) = v4InV6Prefix THEN SubSeq(ip, 13, 16)
    ELSE NilIP

\* net.IP.To16
To16(ip) ==
    IF Len(ip) = 4 THEN v4InV6Prefix \o ip
    ELSE IF Len(ip) = 16 THEN ip
    ELSE NilIP

\* func normalizeIP(ip net.IP) net.IP
normalizeIPAlways16(ip) == IF ip = NilIP THEN NilIP ELSE To16(ip)

normalizeIP(ip) ==
    IF ip = NilIP THEN NilIP
    ELSE IF To4(ip) # NilIP THEN To4(ip)
    ELSE To16(ip)

\* bytes.Compare: -1, 0 or 1 by the first differing byte, bytes unsigned,
\* a proper prefix first
AsInt8(b) == IF b >= 128 THEN b - 256 ELSE b

RECURSIVE bytesCompareSigned(_, _)
bytesCompareSigned(a, b) ==
    IF a = <<>> /\ b = <<>> THEN 0
    ELSE IF a = <<>> THEN 0 - 1
    ELSE IF b = <<>> THEN 1
    ELSE IF AsInt8(Head(a)) < AsInt8(Head(b)) THEN 0 - 1
    ELSE IF AsInt8(Head(a)) > AsInt8(Head(b)) THEN 1
    ELSE bytesCompareSigned(Tail(a), Tail(b))

RECURSIVE bytesCompare(_, _)
bytesCompare(a, b) ==
    IF a = <<>> /\ b = <<>> THEN 0
    ELSE IF a = <<>> THEN 0 - 1
    ELSE IF b = <<>> THEN 1
    ELSE IF Head(a) < Head(b) THEN 0 - 1
    ELSE IF Head(a) > Head(b) THEN 1
    ELSE bytesCompare(Tail(a), Tail(b))

\* func (v *IPRangeValidator) Validate(val net.IP)
IPRangeValidate(cfg, val) ==
    LET start == normalizeIP(cfg.Start)
        end == normalizeIP(cfg.End)
        value == normalizeIP(val)
    IN  IF start = NilIP \/ end = NilIP
        THEN Res(FALSE, "\"start\" and \"end\" must be valid IPs")
        ELSE IF value = NilIP
        THEN Res(FALSE, "invalid IP")
        ELSE IF Len(start) # Len(end)
        THEN Res(FALSE, "\"start\" and \"end\" must be same IP family")
        ELSE IF Len(value) # Len(start)
        THEN Res(FALSE, "ip family mismatch")
        ELSE IF bytesCompare(start, end) > 0
        THEN Res(FALSE, "\"start\" must be less than or equal to \"end\"")
        ELSE IF bytesCompare(value, start) < 0 \/ bytesCompare(value, end) > 0
        THEN Res(FALSE, "ip %v is not in range [%v, %v]")
        ELSE Res(TRUE, Nil)

\* netip.parseIPv4Fields: four fields of decimal digits between dots, none
\* empty, none with a leading zero, none above 255
Octet(p) ==
    /\ AllDigits(p) /\ Len(p) <= 3
    /\ Len(p) > 1 => p[1] # "0"
    /\ DecimalVal(p) <= 255
parseIPv4Fields(s) ==
    LET parts == SplitOn(s, ".") IN
    IF Len(parts) = 4 /\ \A i \in 1..4 : Octet(parts[i])
    THEN [ok |-> TRUE, fields |-> [i \in 1..4 |-> DecimalVal(parts[i])]]
    ELSE [ok |-> FALSE, fields |-> <<>>]

\* the hexadecimal digits a text starts with, and their value
RECURSIVE HexRun(_)
HexRun(s) ==
    IF s # <<>> /\ Head(s) \in HexDigits THEN <<Head(s)>> \o HexRun(Tail(s))
    ELSE <<>>
RECURSIVE HexVal(_)
HexVal(str) ==
    IF str = <<>> THEN 0
    ELSE 16 * HexVal(SubSeq(str, 1, Len(str) - 1))
         + ParseHex(ToLower(str[Len(str)]))

NoEllipsis == 0 - 1
NoAddr == [ok |-> FALSE, ip |-> NilIP]

\* netip.parseIPv6, after its loop: the whole text must be used; an address
\* that is too short is filled with zeros at the "::", which must stand for
\* one group at least
parseIPv6End(s, ip, ellipsis) ==
    IF s # <<>> THEN NoAddr
    ELSE IF Len(ip) < 16
    THEN IF ellipsis < 0 THEN NoAddr
         ELSE [ok |-> TRUE,
               ip |-> SubSeq(ip, 1, ellipsis) \o Zeros(16 - Len(ip))
                      \o SubSeq(ip, ellipsis + 1, Len(ip))]
    ELSE IF ellipsis >= 0 THEN NoAddr
    ELSE [ok |-> TRUE, ip |-> ip]

\* netip.parseIPv6, its loop: s is the text left, ip the bytes written
\* (i = Len(ip)), ellipsis the place of the "::"
RECURSIVE parseIPv6Loop(_, _, _, _)

\* after a group of hexadecimal digits was stored and rest is left
parseIPv6Next(rest, ip, ellipsis, longGroups) ==
    IF rest = <<>> THEN parseIPv6End(rest, ip, ellipsis)
    ELSE IF rest[1] # ":" THEN NoAddr
    ELSE IF Len(rest) = 1 THEN NoAddr
    ELSE IF rest[2] # ":"
    THEN parseIPv6Loop(Tail(rest), ip, ellipsis, longGroups)
    ELSE IF ellipsis >= 0 THEN NoAddr
    ELSE IF Len(rest) = 2 THEN parseIPv6End(<<>>, ip, Len(ip))
    ELSE parseIPv6Loop(SubSeq(rest, 3, Len(rest)), ip, Len(ip), longGroups)

\* a group of off hexadecimal digits at the head of s. A group of more than
\* four digits is no address for netip.ParseAddr; the parser net.ParseIP had
\* of its own before it went over to netip took one whose value fits 16
\* bits. longGroups tells which of the two the build has.
parseIPv6Group(s, ip, ellipsis, off, longGroups) ==
    IF off = 0 \/ (~longGroups /\ off > 4)
           \/ (longGroups /\ HexVal(SubSeq(s, 1, off)) > 65535)
    THEN NoAddr
    ELSE IF off < Len(s) /\ s[off + 1] = "."
    THEN IF (ellipsis < 0 /\ Len(ip) # 12) \/ Len(ip) + 4 > 16 THEN NoAddr
         ELSE IF ~parseIPv4Fields(s).ok THEN NoAddr
         ELSE parseIPv6End(<<>>, ip \o parseIPv4Fields(s).fields, ellipsis)
    ELSE parseIPv6Next(SubSeq(s, off + 1, Len(s)),
                       ip \o <<HexVal(SubSeq(s, 1, off)) \div 256,
                               HexVal(SubSeq(s, 1, off)) % 256>>,
                       ellipsis, longGroups)

parseIPv6Loop(s, ip, ellipsis, longGroups) ==
    IF Len(ip) >= 16 THEN parseIPv6End(s, ip, ellipsis)
    ELSE parseIPv6Group(s, ip, ellipsis, Len(HexRun(s)), longGroups)

\* netip.parseIPv6: a zone is split off at "%" (net.ParseIP takes no
\* address with a zone), a leading "::" is the ellipsis
parseIPv6(s, longGroups) ==
    IF \E i \in 1..Len(s) : s[i] = "%" THEN NoAddr
    ELSE IF Len(s) >= 2 /\ s[1] = ":" /\ s[2] = ":"
    THEN IF Len(s) = 2 THEN [ok |-> TRUE, ip |-> Zeros(16)]
         ELSE parseIPv6Loop(SubSeq(s, 3, Len(s)), <<>>, 0, longGroups)
    ELSE parseIPv6Loop(s, <<>>, NoEllipsis, longGroups)

\* net.ParseIP: netip.ParseAddr goes by the first ".", ":" or "%" of the
\* text; the address is returned in its 16-byte form, nil for no address
ParseIP(s, longGroups) ==
    IF \A i \in 1..Len(s) : s[i] \notin {".", ":", "%"} THEN NilIP
    ELSE LET i == CHOOSE k \in 1..Len(s) :
                    /\ s[k] \in {".", ":", "%"}
                    /\ \A j \in 1..(k - 1) : s[j] \notin {".", ":", "%"}
         IN  IF s[i] = "."
             THEN IF parseIPv4Fields(s).ok
                  THEN v4InV6Prefix \o parseIPv4Fields(s).fields ELSE NilIP
             ELSE IF s[i] = ":" THEN parseIPv6(s, longGroups).ip
             ELSE NilIP

\* func parseIPParam(raw string) (net.IP, error)
parseIPParam(raw, longGroups) ==
    IF TrimSpace(raw) = <<>> THEN [ip |-> NilIP, err |-> "ip cannot be empty"]
    ELSE IF ParseIP(TrimSpace(raw), longGroups) = NilIP
    THEN [ip |-> NilIP, err |-> "invalid ip %q"]
    ELSE [ip |-> ParseIP(TrimSpace(raw), longGroups), err |-> Nil]

\* func (v *IPRangeValidator) ConvertParam(field, fieldValue, raw), isIP
\* telling whether fieldValue is a net.IP: the error returned and the field
\* afterwards
IPRangeConvert(isIP, cur, raw, longGroups) ==
    IF ~isIP THEN [err |-> ConversionError, val |-> cur]
    ELSE IF parseIPParam(raw, longGroups).err # Nil
    THEN [err |-> parseIPParam(raw, longGroups).err, val |-> cur]
    ELSE [err |-> Nil, val |-> parseIPParam(raw, longGroups).ip]

\* the `start` and `end` texts of the runs
IPTexts ==
    {<<>>, <<" ">>, <<"x">>, <<"1", ".", "0", ".", "0", ".", "0">>, <<"\n", "1", ".", "0", ".", "0", ".", "2", "5", "5", " ">>, <<"0", ".", "0", ".", "0", ".", "1">>, <<":", ":", "1">>, <<"2", "0", "0", "0", ":", ":", "1">>, <<":", ":", "f", "f", "f", "f", ":", "1", ".", "0", ".", "0", ".", "0">>, <<"0", "1", ".", "0", ".", "0", ".", "0">>, <<"1", ":", ":", "2", ":", ":", "3">>, <<"1", ".", "2", ".", "3">>, <<"1", ".", "0", ".", "0", ".", "2", "5", "6">>, <<":", ":", "1", "%", "e">>,
     <<"0", "0", "0", "0", "1", ":", ":">>}

\* One ConvertParam call per parameter of an instance, before the instance
\* is used; conv holds what the call for each parameter returned.
IPRangeConvertParam ==
    /\ pvKind = "iprange" /\ pvOut = Pending /\ hdOut = HandlePending
    /\ \E f \in {"Start", "End"}, isIP \in BOOLEAN, raw \in IPTexts,
          longGroups \in BOOLEAN :
          /\ pvCfg.conv[f] = ConvPending
          /\ pvCfg' = [pvCfg EXCEPT
                          !.conv[f] = IPRangeConvert(isIP, pvCfg[f], raw, longGroups).err,
                          ![f] = IPRangeConvert(isIP, @, raw, longGroups).val]
    /\ UNCHANGED <<pvKind, pvIn, pvOut, vvVars, cvVars, xVars>>

IPRangeCall ==
    /\ pvKind = "iprange" /\ pvOut = Pending
    /\ pvOut' = IPRangeValidate(pvCfg, pvIn)
    /\ UNCHANGED <<pvKind, pvCfg, pvIn, vvVars, cvVars, xVars>>

\* The addresses of the runs: IPv4 in 4-byte form and in 16-byte
\* (IPv4-mapped) form, IPv6, the nil IP and a slice of a wrong length.
\* An instance is a struct literal with nothing left to convert, or one
\* whose two parameters ConvertParam has yet to be called for.
ByteSamples == {0, 1, 255}
IPv4s == {<<a, 0, 0, d>> : a \in ByteSamples, d \in ByteSamples}
IPv4Mapped == {v4InV6Prefix \o ip : ip \in IPv4s}
IPv6s == {<<a>> \o Zeros(14) \o <<d>> : a \in {0, 32}, d \in {1, 255}}
IPs == IPv4s \cup IPv4Mapped \cup IPv6s \cup {NilIP, <<1, 2, 3>>}

InitIP ==
    /\ pvKind = "iprange"
    /\ \/ pvCfg \in [Start : IPs, End : IPs,
                     conv : {[Start |-> Nil, End |-> Nil]}]
       \/ pvCfg \in [Start : {NilIP, <<1, 0, 0, 0>>},
                     End : {NilIP, <<1, 0, 0, 0>>},
                     conv : {[Start |-> ConvPending, End |-> ConvPending]}]
    /\ pvIn \in IPs
    /\ pvOut = Pending
    /\ vvIdle /\ cvIdle /\ xIdle

NextIP == IPRangeConvertParam \/ IPRangeCall

SpecIP == InitIP /\ [][NextIP]_vars

IPDone == pvKind = "iprange" /\ pvOut # Pending

\* the address family: 4 for an IPv4 address in either form, 16 for IPv6,
\* 0 for no address
Family(ip) ==
    IF ip \in IPv4s \cup IPv4Mapped THEN 4 ELSE IF ip \in IPv6s THEN 16 ELSE 0

\* the canonical bytes of an address of the runs
Canon(ip) == IF ip \in IPv4Mapped THEN SubSeq(ip, 13, 16) ELSE ip

\* unsigned byte-wise lexicographic order on sequences of one length
LexLe(a, b) ==
    \/ a = b
    \/ \E k \in 1..Len(a) : a[k] < b[k] /\ \A j \in 1..(k - 1) : a[j] = b[j]

\* C7: with Start and End of one family and a candidate of the other family
\* the call fails with the family-mismatch error: never ok, never the
\* "not in range" error.
C7_FamilyMismatch ==
    (IPDone /\ Family(pvCfg.Start) # 0 /\ Family(pvCfg.Start) = Family(pvCfg.End)
        /\ Family(pvIn) # 0 /\ Family(pvIn) # Family(pvCfg.Start))
    => pvOut = Res(FALSE, "ip family mismatch")

\* an IPv4 candidate in 16-byte form against IPv6 bounds that enclose its
\* 16 bytes
C7_Witness ==
    /\ IPDone /\ pvIn \in IPv4Mapped
    /\ pvCfg.Start \in IPv6s /\ pvCfg.End \in IPv6s
    /\ LexLe(pvCfg.Start, pvIn) /\ LexLe(pvIn, pvCfg.End)
    /\ pvOut = Res(FALSE, "ip family mismatch")

\* C8: with Start, End and the candidate of one family, Start <= End gives a
\* true verdict exactly when Start <= candidate <= End in unsigned byte-wise
\* lexicographic order of the canonical bytes; the verdict for an IPv4
\* candidate is the same in 4-byte and in 16-byte form; Start > End gives an
\* error for every candidate.
C8_RangeByBytes ==
    (IPDone /\ Family(pvCfg.Start) # 0 /\ Family(pvCfg.Start) = Family(pvCfg.End))
    => /\ (Family(pvIn) = Family(pvCfg.Start)
              /\ LexLe(Canon(pvCfg.Start), Canon(pvCfg.End)))
            => pvOut.ok = (/\ LexLe(Canon(pvCfg.Start), Canon(pvIn))
                           /\ LexLe(Canon(pvIn), Canon(pvCfg.End)))
       /\ pvIn \in IPv4s
            => pvOut = IPRangeValidate(pvCfg, v4InV6Prefix \o pvIn)
       /\ ~LexLe(Canon(pvCfg.Start), Canon(pvCfg.End))
            => ~pvOut.ok /\ pvOut.err # Nil

\* a 16-byte IPv4 candidate strictly inside 4-byte bounds whose order rests
\* on a byte above 127
C8_Witness ==
    /\ IPDone /\ pvOut.ok
    /\ pvIn \in IPv4Mapped /\ pvCfg.Start \in IPv4s /\ pvCfg.End \in IPv4s
    /\ Canon(pvIn) # pvCfg.Start /\ Canon(pvIn) # pvCfg.End
    /\ pvCfg.End[1] = 255 /\ pvCfg.Start[1] = 1

----------------------------------------------------------------------------
(* UUIDValidator *)

\* the regular expression of Validate: 8-4-4-4-12 hexadecimal digits, the
\* whole string; its two groups are the characters 15 and 20
DashAt == {9, 14, 19, 24}
uuidMatches(val) ==
    /\ Len(val) = 36
    /\ \A i \in 1..36 : IF i \in DashAt THEN val[i] = "-" ELSE val[i] \in HexDigits

\* func (v *UUIDValidator) Validate(val string)
UUIDValidateDefault1(cfg, val) ==
    IF ~uuidMatches(val) THEN Res(FALSE, "value %q is not a valid UUID")
    ELSE LET versionChar == ToLower(val[15])
             variantChar == ToLower(val[20])
             version == ParseHex(versionChar)
             expected == IF cfg.Version = 0 THEN 1 ELSE cfg.Version
         IN  IF variantChar \notin {"8", "9", "a", "b"}
             THEN Res(FALSE, "value %q is not a valid UUID variant")
             ELSE IF expected < 1 \/ expected > 8
             THEN Res(FALSE, "invalid UUID version %d")
             ELSE IF version # expected
             THEN Res(FALSE, "value %q is not a UUIDv%d")
             ELSE Res(TRUE, Nil)

UUIDValidate(cfg, val) ==
    IF ~uuidMatches(val) THEN Res(FALSE, "value %q is not a valid UUID")
    ELSE LET versionChar == ToLower(val[15])
             variantChar == ToLower(val[20])
             version == ParseHex(versionChar)
             expected == IF cfg.Version = 0 THEN 4 ELSE cfg.Version
         IN  IF variantChar \notin {"8", "9", "a", "b"}
             THEN Res(FALSE, "value %q is not a valid UUID variant")
             ELSE IF expected < 1 \/ expected > 8
             THEN Res(FALSE, "invalid UUID version %d")
             ELSE IF version # expected
             THEN Res(FALSE, "value %q is not a UUIDv%d")
             ELSE Res(TRUE, Nil)

\* func (v *UUIDValidator) ConvertParam(field, fieldValue, raw), isInt
\* telling whether fieldValue.Kind() is reflect.Int: the error returned and
\* the field afterwards
UUIDConvert(isInt, cur, raw) ==
    IF ~isInt THEN [err |-> ConversionError, val |-> cur]
    ELSE IF TrimSpace(raw) = <<>>
    THEN [err |-> "version cannot be empty", val |-> cur]
    ELSE IF ~Atoi(TrimSpace(raw)).ok
    THEN [err |-> "invalid UUID version %q", val |-> cur]
    ELSE [err |-> Nil, val |-> Atoi(TrimSpace(raw)).val]

\* the `version` texts of the runs
VersionTexts == {<<>>, <<" ">>, <<"x">>, <<"1">>, <<" ", "4", "U+00A0">>, <<"9">>,
                 <<"-", "1">>, <<"1", "x">>}

\* One ConvertParam call per parameter of an instance, before the instance
\* is used; conv is what the call returned.
UUIDConvertParam ==
    /\ pvKind = "uuid" /\ pvOut = Pending /\ hdOut = HandlePending
    /\ pvCfg.conv = ConvPending
    /\ \E isInt \in BOOLEAN, raw \in VersionTexts :
          pvCfg' = [pvCfg EXCEPT !.conv = UUIDConvert(isInt, pvCfg.Version, raw).err,
                                 !.Version = UUIDConvert(isInt, @, raw).val]
    /\ UNCHANGED <<pvKind, pvIn, pvOut, vvVars, cvVars, xVars>>

UUIDCall ==
    /\ pvKind = "uuid" /\ pvOut = Pending
    /\ pvOut' = UUIDValidate(pvCfg, pvIn)
    /\ UNCHANGED <<pvKind, pvCfg, pvIn, vvVars, cvVars, xVars>>

\* n copies of the character c
Rep(c, n) == [i \in 1..n |-> c]

\* a canonical UUID text with the given filler digit and nibbles
MkUUID(c, ver, var) ==
    Rep(c, 8) \o <<"-">> \o Rep(c, 4) \o <<"-", ver>> \o Rep(c, 3)
        \o <<"-", var>> \o Rep(c, 3) \o <<"-">> \o Rep(c, 12)

WellFormed == {MkUUID("5", ver, var) : ver \in HexDigits, var \in HexDigits}
              \cup {MkUUID("E", "4", "a"), MkUUID("e", "1", "B")}

\* texts the pattern rejects: no dashes, a letter that is no hexadecimal
\* digit, a character too few, a character too many, the empty string
Malformed ==
    {Rep("5", 12) \o <<"4">> \o Rep("5", 3) \o <<"a">> \o Rep("5", 15),
     MkUUID("g", "4", "a"),
     SubSeq(MkUUID("5", "4", "a"), 1, 35),
     MkUUID("5", "4", "a") \o <<"5">>,
     MkUUID("5", "4", "g"),
     <<>>}

InitUUID ==
    /\ pvKind = "uuid"
    /\ \/ pvCfg \in [Version : (0 - 1) .. MaxVersion, conv : {Nil}]
       \/ pvCfg \in [Version : {0, 4}, conv : {ConvPending}]
    /\ pvIn \in WellFormed \cup Malformed
    /\ pvOut = Pending
    /\ vvIdle /\ cvIdle /\ xIdle

NextUUID == UUIDConvertParam \/ UUIDCall

SpecUUID == InitUUID /\ [][NextUUID]_vars

UUIDDone == pvKind = "uuid" /\ pvOut # Pending

\* the canonical grouping, stated on the five groups
Canonical(val) ==
    /\ Len(val) = 36
    /\ val[9] = "-" /\ val[14] = "-" /\ val[19] = "-" /\ val[24] = "-"
    /\ \A i \in (1..8) \cup (10..13) \cup (15..18) \cup (20..23) \cup (25..36) :
          val[i] \in HexDigits

\* the value of a hexadecimal digit, either letter case
HexNames == <<{"0"}, {"1"}, {"2"}, {"3"}, {"4"}, {"5"}, {"6"}, {"7"}, {"8"}, {"9"},
              {"a", "A"}, {"b", "B"}, {"c", "C"}, {"d", "D"}, {"e", "E"}, {"f", "F"}>>
HexValue(c) == CHOOSE n \in 0..15 : c \in HexNames[n + 1]

\* the expected version: the configured one, 4 when none is configured
ExpectedVersion == IF pvCfg.Version = 0 THEN 4 ELSE pvCfg.Version

\* canonical grouping, variant nibble among 8, 9, a, b, and the version
\* nibble equal to the expected version
MatchesExpected ==
    /\ Canonical(pvIn)
    /\ HexValue(pvIn[20]) \in 8..11
    /\ HexValue(pvIn[15]) = ExpectedVersion

\* C9 (as claimed): the verdict is true exactly when the text is canonical,
\* its variant nibble is one of 8, 9, a, b and its version nibble equals the
\* expected version.
C9_UUIDVerdict == UUIDDone => (pvOut.ok = MatchesExpected)

\* C9 (amended): the same, provided the expected version lies in 1..8; with
\* any other expected version the verdict is false.  So the default
\* configuration accepts a version-4 UUID and rejects a version-1 UUID.
C9_UUIDVerdictInRange ==
    UUIDDone =>
        /\ pvOut.ok = (MatchesExpected /\ ExpectedVersion \in 1..8)
        /\ pvOut.ok = (pvOut.err = Nil)
        /\ (pvCfg.Version = 0 /\ Canonical(pvIn) /\ HexValue(pvIn[20]) \in 8..11)
              => /\ pvIn[15] = "4" => pvOut.ok
                 /\ pvIn[15] = "1" => ~pvOut.ok

\* the default configuration accepts a version-4 UUID written in capitals
C9_Witness ==
    /\ UUIDDone /\ pvCfg.Version = 0 /\ pvOut.ok
    /\ pvIn[15] = "4" /\ pvIn[20] = "B"

\* a configured version that is neither 0 nor in 1..8
VersionMisconfigured == pvCfg.Version # 0 /\ pvCfg.Version \notin 1..8

\* C10 (as claimed): with a configured version that is neither 0 nor in 1..8
\* every candidate, well-formed or not, gets the "invalid UUID version"
\* error, and never a true verdict.
C10_VersionErrorForEveryCandidate ==
    (UUIDDone /\ VersionMisconfigured)
    => pvOut = Res(FALSE, "invalid UUID version %d")

\* the part of C10 the code keeps: a misconfigured version never gives a true
\* verdict, and a canonical text with a variant nibble among 8, 9, a, b
\* gets the "invalid UUID version" error
UUIDMisconfiguredNeverOk ==
    (UUIDDone /\ VersionMisconfigured)
    => /\ ~pvOut.ok /\ pvOut.err # Nil
       /\ (Canonical(pvIn) /\ HexValue(pvIn[20]) \in 8..11)
             => pvOut.err = "invalid UUID version %d"

----------------------------------------------------------------------------
(* The built-in validators as directives: Validate and Handle on one        *)
(* configured instance.                                                     *)

\* func (v *NonZeroValidator[T]) Validate(val T); isZero is what
\* !rv.IsValid() || rv.IsZero() gives for the value
NonZeroValidate(isZero) ==
    IF isZero THEN Res(FALSE, "value is zero") ELSE Res(TRUE, Nil)

\* func validateNonZero[T any](val T); zero is the zero value of T that
\* rv.IsZero() tests for
validateNonZero(val, zero) == NonZeroValidate(val = zero)

\* func (v *NonZeroIntValidator) Validate(val int)
NonZeroIntValidate(val) == validateNonZero(val, 0)

\* func (v *NonEmptyStringValidator) Validate(val string)
NonEmptyStringValidate(val) ==
    LET r == validateNonZero(val, <<>>) IN
    IF ~r.ok THEN Res(FALSE, "string is empty")
    ELSE IF r.err # Nil THEN Res(FALSE, r.err)
    ELSE Res(TRUE, Nil)

\* func (v *MinLengthValidator) Validate(val string)
MinLengthValidate(cfg, val) ==
    IF cfg.Size = 0 THEN Res(FALSE, "value of parameter \"size\" cannot be 0")
    ELSE IF cfg.Size < 0
    THEN Res(FALSE, "value of parameter \"size\" cannot be negative")
    ELSE IF Len(val) < cfg.Size
    THEN Res(FALSE, "value %s is shorter than minimum length %d")
    ELSE Res(TRUE, Nil)

\* func (v *MaxLengthValidator) Validate(val string)
MaxLengthValidate(cfg, val) ==
    IF cfg.Size = 0 THEN Res(FALSE, "value of parameter \"size\" cannot be 0")
    ELSE IF cfg.Size < 0
    THEN Res(FALSE, "value of parameter \"size\" cannot be negative")
    ELSE IF Len(val) > cfg.Size
    THEN Res(FALSE, "value %s exceeds maximum length %d")
    ELSE Res(TRUE, Nil)

\* func (v *LengthRangeValidator) Validate(val string)
LengthRangeValidate(cfg, val) ==
    LET l == Len(val) IN
    IF cfg.Min = 0 THEN Res(FALSE, "\"min\" value cannot be 0")
    ELSE IF cfg.Max = 0 THEN Res(FALSE, "\"max\" value cannot be 0")
    ELSE IF cfg.Min < 0 \/ cfg.Max < 0
    THEN Res(FALSE, "\"min\" and \"max\" cannot be negative")
    ELSE IF cfg.Min > cfg.Max THEN Res(FALSE, "\"min\" cannot exceed \"max\"")
    ELSE IF l < cfg.Min \/ l > cfg.Max
    THEN Res(FALSE, "value %q with length %d is not in range [%d, %d]")
    ELSE Res(TRUE, Nil)

\* net/url getScheme: the scheme is the run of letters, and after the first
\* character digits, "+", "-" and ".", before the first ":"; a text that
\* starts with ":" is an error, a text whose first other character comes
\* earlier has none.
IsLetter(c) ==
    c \in {"a", "b", "c", "d", "e", "f", "g", "h", "i", "j", "k", "l", "m",
           "n", "o", "p", "q", "r", "s", "t", "u", "v", "w", "x", "y", "z",
           "A", "B", "C", "D", "E", "F", "G", "H", "I", "J", "K", "L", "M",
           "N", "O", "P", "Q", "R", "S", "T", "U", "V", "W", "X", "Y", "Z"}

RECURSIVE getSchemeFrom(_, _)
getSchemeFrom(s, i) ==
    IF i > Len(s) THEN [scheme |-> <<>>, rest |-> s, err |-> Nil]
    ELSE IF IsLetter(s[i]) THEN getSchemeFrom(s, i + 1)
    ELSE IF IsDigit(s[i]) \/ s[i] \in {"+", "-", "."}
    THEN IF i = 1 THEN [scheme |-> <<>>, rest |-> s, err |-> Nil]
         ELSE getSchemeFrom(s, i + 1)
    ELSE IF s[i] = ":"
    THEN IF i = 1 THEN [scheme |-> <<>>, rest |-> <<>>,
                        err |-> "missing protocol scheme"]
         ELSE [scheme |-> SubSeq(s, 1, i - 1),
               rest |-> SubSeq(s, i + 1, Len(s)), err |-> Nil]
    ELSE [scheme |-> <<>>, rest |-> s, err |-> Nil]

getScheme(s) == getSchemeFrom(s, 1)

\* the authority of "//authority/path": the text up to the next "/"
RECURSIVE UpToSlash(_)
UpToSlash(s) ==
    IF s = <<>> \/ Head(s) = "/" THEN <<>> ELSE <<Head(s)>> \o UpToSlash(Tail(s))

\* strings.Index and strings.LastIndex for one character, counted from 1;
\* 0 when the character is not in the text
IndexByte(s, c) ==
    IF \E i \in 1..Len(s) : s[i] = c
    THEN CHOOSE i \in 1..Len(s) : s[i] = c /\ \A j \in 1..(i - 1) : s[j] # c
    ELSE 0
LastIndexByte(s, c) ==
    IF \E i \in 1..Len(s) : s[i] = c
    THEN CHOOSE i \in 1..Len(s) : s[i] = c /\ \A j \in (i + 1)..Len(s) : s[j] # c
    ELSE 0

\* strings.Index(s, "%25")
IndexZone(s) ==
    IF \E i \in 1..(Len(s) - 2) : SubSeq(s, i, i + 2) = <<"%", "2", "5">>
    THEN CHOOSE i \in 1..(Len(s) - 2) :
            /\ SubSeq(s, i, i + 2) = <<"%", "2", "5">>
            /\ \A j \in 1..(i - 1) : SubSeq(s, j, j + 2) # <<"%", "2", "5">>
    ELSE 0

\* the bytes 0x20 to 0x7e in their order, and the control bytes: the bytes
\* below 0x20 and 0x7f. Every other character is outside ASCII and takes
\* bytes from 0x80 on.
Printable ==
    <<" ", "!", "\"", "#", "$", "%", "&", "'", "(", ")", "*", "+", ",", "-",
      ".", "/", "0", "1", "2", "3", "4", "5", "6", "7", "8", "9", ":", ";",
      "<", "=", ">", "?", "@", "A", "B", "C", "D", "E", "F", "G", "H", "I",
      "J", "K", "L", "M", "N", "O", "P", "Q", "R", "S", "T", "U", "V", "W",
      "X", "Y", "Z", "[", "\\", "]", "^", "_", "U+0060", "a", "b", "c", "d", "e",
      "f", "g", "h", "i", "j", "k", "l", "m", "n", "o", "p", "q", "r", "s",
      "t", "u", "v", "w", "x", "y", "z", "{", "|", "}", "~">>
ControlBytes ==
    {"U+0000", "U+0001", "U+0002", "U+0003", "U+0004", "U+0005", "U+0006",
     "U+0007", "U+0008", "\t", "\n", "U+000B", "\f", "\r", "U+000E",
     "U+000F", "U+0010", "U+0011", "U+0012", "U+0013", "U+0014", "U+0015",
     "U+0016", "U+0017", "U+0018", "U+0019", "U+001A", "U+001B", "U+001C",
     "U+001D", "U+001E", "U+001F", "U+007F"}

\* net/url stringContainsCTLByte
stringContainsCTLByte(s) == \E i \in 1..Len(s) : s[i] \in ControlBytes

\* net/url ishex and unhex
ishex(c) == c \in HexDigits
unhex(c) == ParseHex(ToLower(c))

\* net/url shouldEscape(c, encodeHost) on a byte of ASCII: letters, digits,
\* the sub-delimiters, ":", "[", "]", "<", ">", "\"" and the marks stay
shouldEscape(c) ==
    ~(\/ IsLetter(c) \/ IsDigit(c)
      \/ c \in {"!", "$", "&", "'", "(", ")", "*", "+", ",", ";", "=", ":",
               "[", "]", "<", ">", "\"", "-", "_", ".", "~"})

\* the byte an escape %XX stands for, as shouldEscape sees it in a zone: a
\* byte of Printable, or one that must be escaped
EscapedByteOk(b) ==
    /\ b \in 32..126
    /\ (b = 32 \/ ~shouldEscape(Printable[b - 31]))

\* net/url unescape(s, mode): the error it returns. In every mode "%" must
\* be followed by two hexadecimal digits; in a host an escape stands for a
\* byte outside ASCII or is "%25"; in a zone it stands for a byte a host may
\* hold, a space or is "%25"; and in a host or a zone a byte of ASCII that
\* is written out must be one a host may hold.
RECURSIVE unescape(_, _)
unescape(s, mode) ==
    IF s = <<>> THEN Nil
    ELSE IF Head(s) = "%"
    THEN IF Len(s) < 3 \/ ~ishex(s[2]) \/ ~ishex(s[3])
         THEN "invalid URL escape %q"
         ELSE IF /\ mode = "encodeHost" /\ unhex(s[2]) < 8
                 /\ SubSeq(s, 1, 3) # <<"%", "2", "5">>
         THEN "invalid URL escape %q"
         ELSE IF /\ mode = "encodeZone" /\ SubSeq(s, 1, 3) # <<"%", "2", "5">>
                 /\ ~EscapedByteOk(16 * unhex(s[2]) + unhex(s[3]))
         THEN "invalid URL escape %q"
         ELSE unescape(SubSeq(s, 4, Len(s)), mode)
    ELSE IF /\ mode \in {"encodeHost", "encodeZone"}
            /\ \E i \in 1..Len(Printable) : Printable[i] = Head(s)
            /\ shouldEscape(Head(s))
    THEN "invalid character %q in host name"
    ELSE unescape(Tail(s), mode)

\* net/url validOptionalPort: nothing, or ":" and digits only
validOptionalPort(port) ==
    \/ port = <<>>
    \/ /\ Head(port) = ":"
       /\ \A i \in 2..Len(port) : IsDigit(port[i])

\* net/url validUserinfo
validUserinfo(s) ==
    \A i \in 1..Len(s) :
        \/ IsLetter(s[i]) \/ IsDigit(s[i])
        \/ s[i] \in {"-", ".", "_", ":", "~", "!", "$", "&", "'", "(", ")",
                    "*", "+", ",", ";", "=", "%", "@"}

\* The releases of the standard library differ on hosts: up to Go 1.25.1
\* what stands between "[" and "]" is not looked at and the port of a host
\* without brackets is what follows its last colon ("lastcolon"); from
\* Go 1.25.2 on the brackets must hold an IPv6 address, in Go 1.25.2 itself
\* none that maps an IPv4 address ("unmapped"), later any ("ipliteral");
\* from Go 1.26 on the port of a host without brackets is what follows its
\* first colon, so that it holds one colon at most ("strictcolons").
Builds == {"lastcolon", "unmapped", "ipliteral", "strictcolons"}

\* net/url unescape(s, encodeHost): the text an accepted host stands for,
\* "%25" for "%" and every other escape for a byte outside ASCII
RECURSIVE Unescaped(_)
Unescaped(s) ==
    IF s = <<>> THEN <<>>
    ELSE IF Head(s) = "%" /\ Len(s) >= 3
    THEN <<IF SubSeq(s, 1, 3) = <<"%", "2", "5">> THEN "%" ELSE "U+0080">>
         \o Unescaped(SubSeq(s, 4, Len(s)))
    ELSE <<Head(s)>> \o Unescaped(Tail(s))

\* netip.ParseAddr on the unescaped text between the brackets, and
\* Addr.Is4: the error parseHost returns for it. The first of ".", ":" and
\* "%" decides how the text is read: v4 is its reading as an IPv4 address,
\* v6 that of what stands before the zone as an IPv6 address, pct the place
\* of the first "%".
literalErrOf(name, pct, v4, v6, build) ==
    IF \E i \in 1..Len(name) :
          /\ name[i] \in {".", ":", "%"}
          /\ \A j \in 1..(i - 1) : name[j] \notin {".", ":", "%"}
          /\ \/ name[i] = "." /\ v4.ok
             \/ name[i] = ":" /\ pct # Len(name) /\ v6.ok
    THEN IF v4.ok THEN "invalid IP-literal"
         ELSE IF build = "unmapped" /\ SubSeq(v6.ip, 1, 12) = v4InV6Prefix
         THEN "invalid IP-literal"
         ELSE Nil
    ELSE "invalid host: %w"

\* the text before the zone of an address
BeforeZone(name, pct) == IF pct = 0 THEN name ELSE SubSeq(name, 1, pct - 1)

literalErr(name, build) ==
    literalErrOf(name, IndexByte(name, "%"), parseIPv4Fields(name),
                 parseIPv6(BeforeZone(name, IndexByte(name, "%")), FALSE), build)

\* the first error of a list of them
First(errs) ==
    IF \A i \in 1..Len(errs) : errs[i] = Nil THEN Nil
    ELSE errs[CHOOSE i \in 1..Len(errs) :
                 errs[i] # Nil /\ \A j \in 1..(i - 1) : errs[j] = Nil]

\* unescape on the parts of a text in their order, each a pair of a text
\* and its mode: the first error
unescapeAll(parts) ==
    First([i \in 1..Len(parts) |-> unescape(parts[i][1], parts[i][2])])

\* the parts of a host that parseHost hands to unescape: with a zone, which
\* starts at the first "%25" before the place close, what stands before the
\* zone, the zone and what follows close; without one the whole text
HostParts(host, close, zone) ==
    IF zone # 0
    THEN <<<<SubSeq(host, 1, zone - 1), "encodeHost">>,
           <<SubSeq(host, zone, close - 1), "encodeZone">>,
           <<SubSeq(host, close, Len(host)), "encodeHost">>>>
    ELSE <<<<host, "encodeHost">>>>

\* net/url parseHost up to Go 1.25.1 on a host that starts with "[", close
\* being the place of the last "]"
parseBracketed(host, close) ==
    IF close = 0 THEN "missing ']' in host"
    ELSE IF ~validOptionalPort(SubSeq(host, close + 1, Len(host)))
    THEN "invalid port %q after host"
    ELSE unescapeAll(HostParts(host, close, IndexZone(SubSeq(host, 1, close - 1))))

\* the address a text between brackets stands for: "%25" starts the zone,
\* whose text is taken as it is written
LiteralName(name, zone) ==
    IF zone # 0
    THEN Unescaped(SubSeq(name, 1, zone + 2)) \o SubSeq(name, zone + 3, Len(name))
    ELSE Unescaped(name)

\* net/url parseHost from Go 1.25.2 on a host that holds "[", open being
\* the place of the last "[" and close that of the last "]"; name is what
\* stands between them
parseLiteral(host, open, close, name, build) ==
    IF close = 0 THEN "missing ']' in host"
    ELSE IF ~validOptionalPort(SubSeq(host, close + 1, Len(host)))
    THEN "invalid port %q after host"
    ELSE IF close < open THEN "invalid host: %w"
    ELSE First(<<unescapeAll(HostParts(name, Len(name) + 1, IndexZone(name))),
                 literalErr(LiteralName(name, IndexZone(name)), build)>>)

\* net/url parseHost: the error it returns
parseHost(host, build) ==
    IF build = "lastcolon" /\ host # <<>> /\ Head(host) = "["
    THEN parseBracketed(host, LastIndexByte(host, "]"))
    ELSE IF build # "lastcolon" /\ IndexByte(host, "[") # 0
    THEN parseLiteral(host, LastIndexByte(host, "["), LastIndexByte(host, "]"),
                      SubSeq(host, LastIndexByte(host, "[") + 1,
                             LastIndexByte(host, "]") - 1),
                      build)
    ELSE IF /\ IndexByte(host, ":") # 0
            /\ ~validOptionalPort(SubSeq(host,
                                         IF build = "strictcolons"
                                         THEN IndexByte(host, ":")
                                         ELSE LastIndexByte(host, ":"),
                                         Len(host)))
    THEN "invalid port %q after host"
    ELSE unescapeAll(<<<<host, "encodeHost">>>>)

\* the user information of an authority, at being the place of the last
\* "@": its characters are looked at, then the escapes of the name and of
\* the password
userinfoErr(userinfo, at) ==
    IF at = 0 THEN Nil
    ELSE IF ~validUserinfo(userinfo) THEN "net/url: invalid userinfo"
    ELSE unescapeAll(<<<<userinfo, "encodeUserPassword">>>>)

\* net/url parseAuthority: the error it returns; at is the place of the
\* last "@". The host is looked at first, then the user information.
parseAuthority(authority, at, build) ==
    First(<<parseHost(SubSeq(authority, at + 1, Len(authority)), build),
            userinfoErr(SubSeq(authority, 1, at - 1), at)>>)

\* net/url parse(rawURL, true) after the scheme: the query is cut off at the
\* first "?"; a rest that does not start with "/" is opaque under a scheme
\* and no request URI without one; "//" under a scheme starts the
\* authority, which ends before the next "/"; what is left is the path,
\* whose escapes must be complete.
HasAuthority(scheme, rest) == scheme # <<>> /\ Len(rest) >= 2 /\ rest[2] = "/"

authorityErr(has, authority, build) ==
    IF has THEN parseAuthority(authority, LastIndexByte(authority, "@"), build)
    ELSE Nil

parseRest(scheme, rest, build) ==
    IF rest = <<>> \/ Head(rest) # "/"
    THEN IF scheme # <<>> THEN Nil ELSE "invalid URI for request"
    ELSE First(<<authorityErr(HasAuthority(scheme, rest),
                              UpToSlash(SubSeq(rest, 3, Len(rest))), build),
                 unescapeAll(<<<<IF HasAuthority(scheme, rest)
                                 THEN SubSeq(rest, 3 + Len(UpToSlash(SubSeq(rest, 3, Len(rest)))),
                                             Len(rest))
                                 ELSE rest,
                                 "encodePath">>>>)>>)

\* the text before the query of a URL
BeforeQuery(s, q) == IF q = 0 THEN s ELSE SubSeq(s, 1, q - 1)

\* url.ParseRequestURI after getScheme, whose results are sch
parseScheme(sch, build) ==
    IF sch.err # Nil THEN sch.err
    ELSE parseRest(sch.scheme, BeforeQuery(sch.rest, IndexByte(sch.rest, "?")), build)

\* url.ParseRequestURI: the error it returns (Nil for none)
ParseRequestURI(s, build) ==
    IF stringContainsCTLByte(s) THEN "net/url: invalid control character in URL"
    ELSE IF s = <<>> THEN "empty url"
    ELSE IF s = <<"*">> THEN Nil
    ELSE parseScheme(getScheme(s), build)

\* a Validate that never sets the named result ok
UrlValidateOkUnset(cfg, val) == Res(FALSE, ParseRequestURI(val, cfg.build))

\* the named results of Validate: ok is set when err is nil
UrlResult(err) == Res(err = Nil, err)

\* func (v *UrlValidator) Validate(val string): the named results start as
\* (false, nil); err is the parser's, ok is set when it is nil. The
\* validator has no fields; cfg names the standard library of the build.
UrlValidate(cfg, val) == UrlResult(ParseRequestURI(val, cfg.build))

\* func (v *Float64RangeValidator) Validate(val float64)
Float64RangeValidate(cfg, val) ==
    validateRange("float64", val, cfg.Min, cfg.Max, "value %g is out of range [%g, %g]")

\* A time.Time is its instant: the day counted from January 1 of year 1,
\* the second of that day in UTC and the nanosecond of that second. The
\* zero Time is the first instant of day 0; Instant(n) is n seconds later.
Instant(n) == [day |-> 0, sec |-> n, nsec |-> 0]
\* time.Time.IsZero, Before and After
IsZero(t) == t = Instant(0)
BeforeTime(t, u) ==
    \/ t.day < u.day
    \/ t.day = u.day /\ t.sec < u.sec
    \/ t.day = u.day /\ t.sec = u.sec /\ t.nsec < u.nsec
AfterTime(t, u) == BeforeTime(u, t)

\* func (v *TimeBetweenValidator) Validate(val time.Time)
TimeBetweenValidate(cfg, val) ==
    IF IsZero(cfg.Start) \/ IsZero(cfg.End)
    THEN Res(FALSE, "\"start\" and \"end\" times must be set")
    ELSE IF AfterTime(cfg.Start, cfg.End)
    THEN Res(FALSE, "\"start\" time cannot be after \"end\" time")
    ELSE IF BeforeTime(val, cfg.Start) \/ AfterTime(val, cfg.End)
    THEN Res(FALSE, "time %v is not in range [%v, %v]")
    ELSE Res(TRUE, Nil)

\* the calendar of time.Date: leap years, the days of a month, and the day
\* a date falls on, counted from January 1 of year 1
Leap(y) == y % 4 = 0 /\ (y % 100 # 0 \/ y % 400 = 0)
daysIn(m, y) ==
    IF m = 2 THEN (IF Leap(y) THEN 29 ELSE 28)
    ELSE IF m \in {4, 6, 9, 11} THEN 30 ELSE 31
DayOf(y, m, d) ==
    365 * (y - 1) + ((y - 1) \div 4) - ((y - 1) \div 100) + ((y - 1) \div 400)
    + <<0, 31, 59, 90, 120, 151, 181, 212, 243, 273, 304, 334>>[m]
    + (IF m > 2 /\ Leap(y) THEN 1 ELSE 0)
    + (d - 1)

\* time.Parse returns the zero Time with its error
NoTime == [ok |-> FALSE, t |-> Instant(0)]

\* getnum(value, true): two digits at place i, and their number
Digits2(v, i) == Len(v) >= i + 1 /\ IsDigit(v[i]) /\ IsDigit(v[i + 1])
Num2(v, i) == 10 * DigitVal(v[i]) + DigitVal(v[i + 1])

\* the digits a text starts with
RECURSIVE DigitRun(_)
DigitRun(s) ==
    IF s # <<>> /\ IsDigit(Head(s)) THEN <<Head(s)>> \o DigitRun(Tail(s))
    ELSE <<>>

\* parseNanoseconds: the first nine digits of the fraction count, a shorter
\* fraction is scaled up
Nanoseconds(run) ==
    DecimalVal([i \in 1..9 |-> IF i <= Len(run) THEN run[i] ELSE "0"])

\* time.Parse(time.RFC3339, value), layout "2006-01-02T15:04:05Z07:00", in
\* the order of the layout's elements. n holds the numbers read so far:
\* year, month, day, hour, minute, second, nanosecond, and the offset in
\* seconds. At the end no text may be left, the fields must be in range and
\* the day must exist in its month; the instant is the date's less the
\* offset.
parseTimeEnd(rest, n) ==
    IF \/ rest # <<>>
       \/ n[2] < 1 \/ n[2] > 12
       \/ n[4] >= 24 \/ n[5] >= 60 \/ n[6] >= 60
    THEN NoTime
    ELSE IF n[3] < 1 \/ n[3] > daysIn(n[2], n[1]) THEN NoTime
    ELSE [ok |-> TRUE,
          t |-> [day |-> DayOf(n[1], n[2], n[3])
                         + ((n[4] * 3600 + n[5] * 60 + n[6] - n[8]) \div 86400),
                 sec |-> (n[4] * 3600 + n[5] * 60 + n[6] - n[8]) % 86400,
                 nsec |-> n[7]]]

\* "Z07:00": "Z", or a sign, two digits, ":" and two digits, the hours at
\* most 24 and the minutes at most 60
parseTimeZone(v, n) ==
    IF v # <<>> /\ v[1] = "Z" THEN parseTimeEnd(Tail(v), Append(n, 0))
    ELSE IF /\ Len(v) >= 6 /\ v[4] = ":" /\ v[1] \in {"+", "-"}
            /\ Digits2(v, 2) /\ Digits2(v, 5)
            /\ Num2(v, 2) <= 24 /\ Num2(v, 5) <= 60
    THEN parseTimeEnd(SubSeq(v, 7, Len(v)),
                      Append(n, (IF v[1] = "-" THEN 0 - 1 ELSE 1)
                                * (Num2(v, 2) * 60 + Num2(v, 5)) * 60))
    ELSE NoTime

\* a fraction of the second the layout does not name: "." or "," and digits
parseTimeFraction(v, n) ==
    IF Len(v) >= 2 /\ v[1] \in {".", ","} /\ IsDigit(v[2])
    THEN parseTimeZone(SubSeq(v, Len(DigitRun(Tail(v))) + 2, Len(v)),
                       Append(n, Nanoseconds(DigitRun(Tail(v)))))
    ELSE parseTimeZone(v, Append(n, 0))

\* ":04:05": two digits each
parseTimeMinSec(v, n) ==
    IF Len(v) >= 6 /\ v[1] = ":" /\ Digits2(v, 2) /\ v[4] = ":" /\ Digits2(v, 5)
    THEN parseTimeFraction(SubSeq(v, 7, Len(v)),
                           n \o <<Num2(v, 2), Num2(v, 5)>>)
    ELSE NoTime

\* "15": getnum(value, false) takes one digit or two
parseTimeHour(v, n) ==
    IF v = <<>> \/ ~IsDigit(v[1]) THEN NoTime
    ELSE IF Len(v) >= 2 /\ IsDigit(v[2])
    THEN parseTimeMinSec(SubSeq(v, 3, Len(v)), Append(n, Num2(v, 1)))
    ELSE parseTimeMinSec(Tail(v), Append(n, DigitVal(v[1])))

\* "2006-01-02T": four digits, two and two
ParseRFC3339(v) ==
    IF /\ Len(v) >= 11 /\ AllDigits(SubSeq(v, 1, 4))
       /\ v[5] = "-" /\ Digits2(v, 6) /\ v[8] = "-" /\ Digits2(v, 9)
       /\ v[11] = "T"
    THEN parseTimeHour(SubSeq(v, 12, Len(v)),
                       <<DecimalVal(SubSeq(v, 1, 4)), Num2(v, 6), Num2(v, 9)>>)
    ELSE NoTime

\* func parseTimeParam(raw string) (time.Time, error)
parseTimeParam(raw) ==
    IF TrimSpace(raw) = <<>>
    THEN [t |-> Instant(0), err |-> "time cannot be empty"]
    ELSE IF ~ParseRFC3339(TrimSpace(raw)).ok
    THEN [t |-> Instant(0), err |-> "invalid time %q: %v"]
    ELSE [t |-> ParseRFC3339(TrimSpace(raw)).t, err |-> Nil]

\* func (v *TimeBetweenValidator) ConvertParam(field, fieldValue, raw),
\* isTime telling whether fieldValue is a time.Time: the error returned and
\* the field afterwards
TimeBetweenConvert(isTime, cur, raw) ==
    IF ~isTime THEN [err |-> ConversionError, val |-> cur]
    ELSE IF parseTimeParam(raw).err # Nil
    THEN [err |-> parseTimeParam(raw).err, val |-> cur]
    ELSE [err |-> Nil, val |-> parseTimeParam(raw).t]

\* the `start` and `end` texts of the runs
TimeTexts ==
    {<<>>, <<"x">>, <<"2", "0", "2", "4", "-", "0", "1", "-", "0", "2", "T", "0", "0", ":", "0", "0", ":", "0", "0", "Z">>,
     <<"0", "0", "0", "1", "-", "0", "1", "-", "0", "1", "T", "0", "0", ":", "0", "0", ":", "0", "1", "Z">>,
     <<"0", "0", "0", "1", "-", "0", "1", "-", "0", "1", "T", "0", "1", ":", "0", "0", ":", "0", "2", "+", "0", "1", ":", "0", "0">>,
     <<"0", "0", "0", "1", "-", "0", "1", "-", "0", "1", "T", "0", ":", "0", "0", ":", "0", "3", "Z">>,
     <<"0", "0", "0", "1", "-", "0", "1", "-", "0", "1", "T", "0", "0", ":", "0", "0", ":", "0", "0", "Z">>,
     <<"2", "0", "2", "4", "-", "0", "2", "-", "3", "0", "T", "0", "0", ":", "0", "0", ":", "0", "0", "Z">>,
     <<"0", "0", "0", "1", "-", "0", "1", "-", "0", "1", "T", "0", "0", ":", "0", "0", ":", "0", "1", ".", "5", "Z">>,
     <<"2", "0", "2", "4", "-", "0", "1", "-", "0", "2", " ", "0", "0", ":", "0", "0", ":", "0", "0", "Z">>,
     <<"\r", "0", "0", "0", "1", "-", "0", "1", "-", "0", "1", "T", "0", "0", ":", "0", "0", ":", "0", "1", "Z", "\n">>,
     <<"0", "0", "0", "1", "-", "0", "1", "-", "0", "1", "T", "0", "0", ":", "0", "0", ":", "0", "1">>}

\* One ConvertParam call per parameter of an instance, before the instance
\* is used; conv holds what the call for each parameter returned.
TimeBetweenConvertParam ==
    /\ pvKind = "betweentime" /\ pvOut = Pending /\ hdOut = HandlePending
    /\ \E f \in {"Start", "End"}, isTime \in BOOLEAN, raw \in TimeTexts :
          /\ pvCfg.conv[f] = ConvPending
          /\ pvCfg' = [pvCfg EXCEPT
                          !.conv[f] = TimeBetweenConvert(isTime, pvCfg[f], raw).err,
                          ![f] = TimeBetweenConvert(isTime, @, raw).val]
    /\ UNCHANGED <<pvKind, pvIn, pvOut, vvVars, cvVars, xVars>>

----------------------------------------------------------------------------
(* The other built-in validators (validators.go 179-1760).  Each Validate  *)
(* is translated with the function of the standard library it calls.       *)

\* the characters of ASCII; every other character takes two bytes or more
PrintableSet == {Printable[i] : i \in 1..Len(Printable)}
IsASCII(c) == c \in PrintableSet \cup ControlBytes
UpperLetters ==
    {"A", "B", "C", "D", "E", "F", "G", "H", "I", "J", "K", "L", "M",
     "N", "O", "P", "Q", "R", "S", "T", "U", "V", "W", "X", "Y", "Z"}
IsAlnum(c) == IsLetter(c) \/ IsDigit(c)

\* strings.HasPrefix, strings.HasSuffix and strings.Contains
HasPrefix(s, prefix) ==
    Len(s) >= Len(prefix) /\ SubSeq(s, 1, Len(prefix)) = prefix
HasSuffix(s, suffix) ==
    Len(s) >= Len(suffix) /\ SubSeq(s, Len(s) - Len(suffix) + 1, Len(s)) = suffix
Contains(s, substr) ==
    \E i \in 1..(Len(s) - Len(substr) + 1) : SubSeq(s, i, i + Len(substr) - 1) = substr
\* strings.TrimPrefix
TrimPrefix(s, prefix) ==
    IF HasPrefix(s, prefix) THEN SubSeq(s, Len(prefix) + 1, Len(s)) ELSE s

\* func (v *NonNegativeFloat64Validator) Validate(val float64)
NonNegativeFloat64Validate(val) ==
    validateNonNegative("float64", val, "value %g is a negative float")

\* func (v *NonPositiveFloat64Validator) Validate(val float64)
NonPositiveFloat64Validate(val) ==
    validateNonPositive("float64", val, "value %g is a positive float")

\* func (v *MinIntValidator) Validate(val int)
MinIntValidate(cfg, val) ==
    validateMin("int", val, cfg.Min, "value %d is less than minimum %d")

\* func (v *MinFloat64Validator) Validate(val float64)
MinFloat64Validate(cfg, val) ==
    validateMin("float64", val, cfg.Min, "value %g is less than minimum %g")

\* func (v *MaxIntValidator) Validate(val int)
MaxIntValidate(cfg, val) ==
    validateMax("int", val, cfg.Max, "value %d exceeds maximum %d")

\* func (v *MaxFloat64Validator) Validate(val float64)
MaxFloat64Validate(cfg, val) ==
    validateMax("float64", val, cfg.Max, "value %g exceeds maximum %g")

\* reflect.Value.IsZero on a float64: up to Go 1.21 the bits of the value are
\* all zero, so that -0 is no zero; from Go 1.22 on the value equals 0.
\* negZero tells which of the two the build has.
FloatIsZero(val, negZero) ==
    val = F64(0, 0, 0, 0) \/ (negZero /\ val = F64(1, 0, 0, 0))

\* func (v *NonZeroFloat64Validator) Validate(val float64); cfg names the
\* standard library of the build
NonZeroFloat64Validate(cfg, val) == NonZeroValidate(FloatIsZero(val, cfg.negZero))

\* func (v *NonZeroTimeValidator) Validate(val time.Time)
NonZeroTimeValidate(val) ==
    IF IsZero(val) THEN Res(FALSE, "time is zero") ELSE Res(TRUE, Nil)

\* func (v *TimeBeforeValidator) Validate(val time.Time)
TimeBeforeValidate(cfg, val) ==
    IF IsZero(cfg.Before) THEN Res(FALSE, "\"before\" time not set")
    ELSE IF ~BeforeTime(val, cfg.Before) THEN Res(FALSE, "time %v is not before %v")
    ELSE Res(TRUE, Nil)

\* func (v *TimeAfterValidator) Validate(val time.Time)
TimeAfterValidate(cfg, val) ==
    IF IsZero(cfg.After) THEN Res(FALSE, "\"after\" time not set")
    ELSE IF ~AfterTime(val, cfg.After) THEN Res(FALSE, "time %v is not after %v")
    ELSE Res(TRUE, Nil)

\* func (v *PositiveDurationValidator) Validate(val time.Duration), a
\* Duration being its count of nanoseconds
PositiveDurationValidate(val) ==
    IF val <= 0 THEN Res(FALSE, "duration is not positive") ELSE Res(TRUE, Nil)

\* the wrapper of validateNonZero that three validators share: a verdict of
\* false is reported under the validator's own message
NonZeroAs(r, message) ==
    IF ~r.ok THEN Res(FALSE, message)
    ELSE IF r.err # Nil THEN Res(FALSE, r.err)
    ELSE Res(TRUE, Nil)

\* func (v *NonZeroDurationValidator) Validate(val time.Duration)
NonZeroDurationValidate(val) == NonZeroAs(validateNonZero(val, 0), "duration is zero")

\* net.IP.IsUnspecified: the address equals 0.0.0.0 or ::, IP.Equal taking
\* a 4-byte address for its 16-byte form
IsUnspecified(ip) ==
    \/ ip = Zeros(4)
    \/ ip = v4InV6Prefix \o Zeros(4)
    \/ ip = Zeros(16)

\* func (v *NonZeroIPValidator) Validate(val net.IP)
NonZeroIPValidate(val) ==
    IF Len(val) = 0 \/ IsUnspecified(val) THEN Res(FALSE, "ip is zero")
    ELSE Res(TRUE, Nil)

\* A url.URL is the record of its fields; User is nil or a *Userinfo.
ZeroURL ==
    [Scheme |-> <<>>, Opaque |-> <<>>, User |-> Nil, Host |-> <<>>,
     Path |-> <<>>, RawPath |-> <<>>, OmitHost |-> FALSE, ForceQuery |-> FALSE,
     RawQuery |-> <<>>, Fragment |-> <<>>, RawFragment |-> <<>>]

\* func (v *NonZeroURLValidator) Validate(val url.URL)
NonZeroURLValidate(val) == NonZeroAs(validateNonZero(val, ZeroURL), "url is zero")

\* func (v *PrefixValidator) Validate(val string)
PrefixValidate(cfg, val) ==
    IF cfg.Value = <<>> THEN Res(FALSE, "value of parameter \"value\" cannot be empty")
    ELSE IF ~HasPrefix(val, cfg.Value)
    THEN Res(FALSE, "value %q does not have prefix %q")
    ELSE Res(TRUE, Nil)

\* func (v *SuffixValidator) Validate(val string)
SuffixValidate(cfg, val) ==
    IF cfg.Value = <<>> THEN Res(FALSE, "value of parameter \"value\" cannot be empty")
    ELSE IF ~HasSuffix(val, cfg.Value)
    THEN Res(FALSE, "value %q does not have suffix %q")
    ELSE Res(TRUE, Nil)

\* func (v *ContainsValidator) Validate(val string)
ContainsValidate(cfg, val) ==
    IF cfg.Value = <<>> THEN Res(FALSE, "value of parameter \"value\" cannot be empty")
    ELSE IF ~Contains(val, cfg.Value)
    THEN Res(FALSE, "value %q does not contain %q")
    ELSE Res(TRUE, Nil)

\* regexp.MatchString(`^[a-zA-Z0-9]+$`, val): the pattern compiles, so the
\* error is nil; "$" stands for the end of the text
MatchAlphaNumeric(val) ==
    [matched |-> val # <<>> /\ \A i \in 1..Len(val) : IsAlnum(val[i]),
     err |-> Nil]

\* func (v *AlphaNumericValidator) Validate(val string)
AlphaNumericValidateOf(m) ==
    IF m.err # Nil THEN Res(FALSE, m.err)
    ELSE IF ~m.matched THEN Res(FALSE, "value %q is not alphanumeric")
    ELSE Res(TRUE, Nil)
AlphaNumericValidate(val) == AlphaNumericValidateOf(MatchAlphaNumeric(val))

\* hex.DecodeString: an even number of hexadecimal digits
hexDecodeOk(s) == Len(s) % 2 = 0 /\ \A i \in 1..Len(s) : s[i] \in HexDigits

\* func (v *HexValidator) Validate(val string)
HexValidate(val) ==
    IF val = <<>> THEN Res(FALSE, "value is empty")
    ELSE IF ~hexDecodeOk(TrimPrefix(TrimPrefix(val, <<"0", "x">>), <<"0", "X">>))
    THEN Res(FALSE, "value %q is not valid hex")
    ELSE Res(TRUE, Nil)

\* hostnamePattern: labels between single dots, each of 1 to 63 letters,
\* digits and hyphens, none starting or ending with a hyphen
HostLabel(l) ==
    /\ Len(l) \in 1..63
    /\ IsAlnum(l[1]) /\ IsAlnum(l[Len(l)])
    /\ \A i \in 1..Len(l) : IsAlnum(l[i]) \/ l[i] = "-"
hostnamePattern(val) ==
    \A i \in 1..Len(SplitOn(val, ".")) : HostLabel(SplitOn(val, ".")[i])

\* func (v *HostnameValidator) Validate(val string)
HostnameValidate(val) ==
    IF val = <<>> THEN Res(FALSE, "value %q is not a valid hostname")
    ELSE IF val = <<"l", "o", "c", "a", "l", "h", "o", "s", "t">> THEN Res(TRUE, Nil)
    ELSE IF ~hostnamePattern(val) THEN Res(FALSE, "value %q is not a valid hostname")
    ELSE Res(TRUE, Nil)

\* net.ParseMAC: 6, 8 or 20 bytes of two hexadecimal digits each, divided
\* by ":" or by "-", or groups of four digits divided by "."; the divider
\* is the one that comes first. A text with a character outside ASCII
\* fails one of the checks, each byte being checked.
macBytes(s, step) ==
    /\ (Len(s) + 1) % step = 0
    /\ (2 * (Len(s) + 1)) \div (IF step = 3 THEN 6 ELSE 5) \in {6, 8, 20}
    /\ \A i \in 1..Len(s) :
          IF i % step = 0 THEN s[i] = s[step] ELSE s[i] \in HexDigits
ParseMAC(s) ==
    IF Len(s) < 14 \/ \E i \in 1..Len(s) : ~IsASCII(s[i]) THEN FALSE
    ELSE IF s[3] \in {":", "-"} THEN macBytes(s, 3)
    ELSE IF s[5] = "." THEN macBytes(s, 5)
    ELSE FALSE

\* func (v *MACAddressValidator) Validate(val string)
MACAddressValidate(val) ==
    IF ~ParseMAC(val) THEN Res(FALSE, "invalid MAC address %q: %v")
    ELSE Res(TRUE, Nil)

\* func (v *IpValidator) Validate(val string), ip being net.ParseIP(val)
IpValidateOf(ip) ==
    IF ip = NilIP THEN Res(FALSE, "invalid IP address %q") ELSE Res(TRUE, Nil)
IpValidate(cfg, val) == IpValidateOf(ParseIP(val, cfg.longGroups))

\* func (v *IPv4Validator) Validate(val string)
IPv4ValidateOf(ip) ==
    IF ip = NilIP \/ To4(ip) = NilIP THEN Res(FALSE, "invalid IPv4 address %q")
    ELSE Res(TRUE, Nil)
IPv4Validate(cfg, val) == IPv4ValidateOf(ParseIP(val, cfg.longGroups))

\* func (v *IPv6Validator) Validate(val string)
IPv6ValidateOf(ip) ==
    IF ip = NilIP \/ To4(ip) # NilIP THEN Res(FALSE, "invalid IPv6 address %q")
    ELSE Res(TRUE, Nil)
IPv6Validate(cfg, val) == IPv6ValidateOf(ParseIP(val, cfg.longGroups))

\* a text without the zeros it starts with
RECURSIVE TrimZeros(_)
TrimZeros(s) == IF s # <<>> /\ Head(s) = "0" THEN TrimZeros(Tail(s)) ELSE s

\* net.ParseCIDR: the address before the first "/" is one net.ParseIP
\* takes, the mask after it is decimal digits only and no more than the
\* bits of the address, 32 for an address written with dots only
cidrMask(mask, bits) ==
    /\ AllDigits(mask)
    /\ Len(TrimZeros(mask)) <= 3
    /\ DecimalVal(TrimZeros(mask)) <= bits
cidrAddr(addr, mask, ip) ==
    /\ ip # NilIP
    /\ cidrMask(mask, IF parseIPv4Fields(addr).ok THEN 32 ELSE 128)
ParseCIDR(s, slash, longGroups) ==
    /\ slash # 0
    /\ cidrAddr(SubSeq(s, 1, slash - 1), SubSeq(s, slash + 1, Len(s)),
                ParseIP(SubSeq(s, 1, slash - 1), longGroups))

\* func (v *IPCIDRValidator) Validate(val string)
IPCIDRValidate(cfg, val) ==
    IF ~ParseCIDR(val, IndexByte(val, "/"), cfg.longGroups)
    THEN Res(FALSE, "invalid CIDR %q: %v")
    ELSE Res(TRUE, Nil)

\* encoding/base64: the decoder passes over "\r" and "\n"; what is left is
\* groups of four characters of the alphabet. StdEncoding wants the last
\* group filled up with "=", RawStdEncoding takes no "=" and a last group
\* of two or three characters.
base64Text(s) == SelectSeq(s, LAMBDA c : c \notin {"\r", "\n"})
base64Char(c) == IsAlnum(c) \/ c \in {"+", "/"}
base64Std(t) ==
    /\ Len(t) % 4 = 0
    /\ \E pad \in 0..2 :
          /\ pad <= Len(t)
          /\ \A i \in 1..(Len(t) - pad) : base64Char(t[i])
          /\ \A i \in (Len(t) - pad + 1)..Len(t) : t[i] = "="
base64RawStd(t) ==
    /\ Len(t) % 4 # 1
    /\ \A i \in 1..Len(t) : base64Char(t[i])

\* func (v *Base64Validator) Validate(val string)
Base64Validate(val) ==
    IF val = <<>> THEN Res(FALSE, "value is empty")
    ELSE IF base64Std(base64Text(val)) THEN Res(TRUE, Nil)
    ELSE IF base64RawStd(base64Text(val)) THEN Res(TRUE, Nil)
    ELSE Res(FALSE, "value %q is not valid base64")

\* encoding/json Valid: one JSON value with white space around it. The
\* operators below give the place after what they read, 0 for a fault.
jsonSpace(c) == c \in {" ", "\t", "\r", "\n"}
pastSpace(s, i) ==
    IF \E j \in i..Len(s) : ~jsonSpace(s[j])
    THEN CHOOSE j \in i..Len(s) :
            ~jsonSpace(s[j]) /\ \A k \in i..(j - 1) : jsonSpace(s[k])
    ELSE Len(s) + 1

\* a string from the place after its opening quote: no control byte, and
\* after "\" one of the escapes, "u" with four hexadecimal digits
RECURSIVE jsonString(_, _)
jsonString(s, i) ==
    IF i > Len(s) \/ s[i] \in ControlBytes \ {"U+007F"} THEN 0
    ELSE IF s[i] = "\"" THEN i + 1
    ELSE IF s[i] # "\\" THEN jsonString(s, i + 1)
    ELSE IF i + 1 > Len(s) THEN 0
    ELSE IF s[i + 1] \in {"b", "f", "n", "r", "t", "\\", "/", "\""}
    THEN jsonString(s, i + 2)
    ELSE IF /\ s[i + 1] = "u" /\ i + 5 <= Len(s)
            /\ \A k \in (i + 2)..(i + 5) : s[k] \in HexDigits
    THEN jsonString(s, i + 6)
    ELSE 0

\* the place after the digits from place i on
digitsEnd(s, i) ==
    IF \E j \in i..Len(s) : ~IsDigit(s[j])
    THEN CHOOSE j \in i..Len(s) : ~IsDigit(s[j]) /\ \A k \in i..(j - 1) : IsDigit(s[k])
    ELSE Len(s) + 1

\* a number: "-" if any, "0" or digits that do not start with "0", then a
\* fraction and an exponent if any, each with one digit at least
jsonExponent(s, i) ==
    IF i <= Len(s) /\ s[i] \in {"e", "E"}
    THEN IF i + 1 <= Len(s) /\ s[i + 1] \in {"+", "-"}
         THEN (IF digitsEnd(s, i + 2) = i + 2 THEN 0 ELSE digitsEnd(s, i + 2))
         ELSE (IF digitsEnd(s, i + 1) = i + 1 THEN 0 ELSE digitsEnd(s, i + 1))
    ELSE i
jsonFraction(s, i) ==
    IF i <= Len(s) /\ s[i] = "."
    THEN (IF digitsEnd(s, i + 1) = i + 1 THEN 0
          ELSE jsonExponent(s, digitsEnd(s, i + 1)))
    ELSE jsonExponent(s, i)
jsonInteger(s, i) ==
    IF i > Len(s) \/ ~IsDigit(s[i]) THEN 0
    ELSE IF s[i] = "0" THEN jsonFraction(s, i + 1)
    ELSE jsonFraction(s, digitsEnd(s, i))
jsonNumber(s, i) == IF s[i] = "-" THEN jsonInteger(s, i + 1) ELSE jsonInteger(s, i)

\* the literals
jsonLiteral(s, i, word) ==
    IF i + Len(word) - 1 <= Len(s) /\ SubSeq(s, i, i + Len(word) - 1) = word
    THEN i + Len(word)
    ELSE 0

RECURSIVE jsonValue(_, _)
RECURSIVE jsonElements(_, _)
RECURSIVE jsonMembers(_, _)

\* after an element that ended before place e: "]" or "," and an element
jsonAfterElement(s, j) ==
    IF j > Len(s) THEN 0
    ELSE IF s[j] = "]" THEN j + 1
    ELSE IF s[j] = "," THEN jsonElements(s, pastSpace(s, j + 1))
    ELSE 0
jsonElementEnd(s, e) == IF e = 0 THEN 0 ELSE jsonAfterElement(s, pastSpace(s, e))
jsonElements(s, i) == jsonElementEnd(s, jsonValue(s, i))
jsonArray(s, j) ==
    IF j <= Len(s) /\ s[j] = "]" THEN j + 1 ELSE jsonElements(s, j)

\* after a member: "}" or "," and a member; a member is a string, ":" and a
\* value
jsonAfterMember(s, j) ==
    IF j > Len(s) THEN 0
    ELSE IF s[j] = "}" THEN j + 1
    ELSE IF s[j] = "," THEN jsonMembers(s, pastSpace(s, j + 1))
    ELSE 0
jsonMemberEnd(s, e) == IF e = 0 THEN 0 ELSE jsonAfterMember(s, pastSpace(s, e))
jsonColon(s, j) ==
    IF j > Len(s) \/ s[j] # ":" THEN 0
    ELSE jsonMemberEnd(s, jsonValue(s, pastSpace(s, j + 1)))
jsonKeyEnd(s, e) == IF e = 0 THEN 0 ELSE jsonColon(s, pastSpace(s, e))
jsonMembers(s, i) ==
    IF i > Len(s) \/ s[i] # "\"" THEN 0 ELSE jsonKeyEnd(s, jsonString(s, i + 1))
jsonObject(s, j) ==
    IF j <= Len(s) /\ s[j] = "}" THEN j + 1 ELSE jsonMembers(s, j)

jsonValue(s, i) ==
    IF i > Len(s) THEN 0
    ELSE IF s[i] = "{" THEN jsonObject(s, pastSpace(s, i + 1))
    ELSE IF s[i] = "[" THEN jsonArray(s, pastSpace(s, i + 1))
    ELSE IF s[i] = "\"" THEN jsonString(s, i + 1)
    ELSE IF s[i] = "t" THEN jsonLiteral(s, i, <<"t", "r", "u", "e">>)
    ELSE IF s[i] = "f" THEN jsonLiteral(s, i, <<"f", "a", "l", "s", "e">>)
    ELSE IF s[i] = "n" THEN jsonLiteral(s, i, <<"n", "u", "l", "l">>)
    ELSE jsonNumber(s, i)

\* json.Valid
jsonEnd(s, e) == e # 0 /\ pastSpace(s, e) = Len(s) + 1
jsonValid(s) == jsonEnd(s, jsonValue(s, pastSpace(s, 1)))

\* func (v *JSONValidator) Validate(val string)
JSONValidate(val) ==
    IF ~jsonValid(val) THEN Res(FALSE, "invalid JSON") ELSE Res(TRUE, Nil)

\* regexp/syntax: a compiled pattern is the tree of its operations, each
\* node a syntax.Regexp with its Op, its Sub nodes, its Rune and its Min
\* and Max. Rune is the text of a literal or the runes of a character
\* class; Neg tells that the class is every rune outside them. A pattern that
\* is not set is the node with no Op.
Regexp(op, sub, rune, neg, min, max) ==
    [Op |-> op, Sub |-> sub, Rune |-> rune, Neg |-> neg, Min |-> min, Max |-> max]
NilRegexp == Regexp(Nil, <<>>, <<>>, FALSE, 0, 0)
OpEmpty(op) == Regexp(op, <<>>, <<>>, FALSE, 0, 0)
OpLiteral(runes) == Regexp("OpLiteral", <<>>, runes, FALSE, 0, 0)
OpCharClass(runes, neg) == Regexp("OpCharClass", <<>>, runes, neg, 0, 0)
OpUnary(op, sub) == Regexp(op, <<sub>>, <<>>, FALSE, 0, 0)
OpRepeat(sub, min, max) == Regexp("OpRepeat", <<sub>>, <<>>, FALSE, min, max)
OpNary(op, subs) == Regexp(op, subs, <<>>, FALSE, 0, 0)

\* syntax.IsWordChar, and whether the character before place i + 1 is one
IsWordChar(c) == IsAlnum(c) \/ c = "_"
wordAt(s, i) == i >= 1 /\ i <= Len(s) /\ IsWordChar(s[i])

\* regexp: the places where a match of the node that starts after place i
\* of the text can end
RECURSIVE reEnds(_, _, _)
reStep(re, s, from) == UNION {reEnds(re, s, i) : i \in from}

\* the node any number of times after the places in seen
RECURSIVE reClosure(_, _, _, _)
reNext(re, s, seen, next) ==
    IF next \subseteq seen THEN seen ELSE reClosure(re, s, seen \cup next, next \ seen)
reClosure(re, s, seen, frontier) == reNext(re, s, seen, reStep(re, s, frontier))

\* the node n times, and up to n times
RECURSIVE reTimes(_, _, _, _)
reTimes(re, s, from, n) ==
    IF n = 0 \/ from = {} THEN from ELSE reTimes(re, s, reStep(re, s, from), n - 1)
RECURSIVE reUpTo(_, _, _, _)
reUpTo(re, s, from, n) ==
    IF n = 0 \/ from = {} THEN from
    ELSE from \cup reUpTo(re, s, reStep(re, s, from), n - 1)
reRepeat(re, s, from, max) ==
    IF max = -1 THEN reClosure(re, s, from, from) ELSE reUpTo(re, s, from, max)

\* the nodes of a concatenation from the k-th on
RECURSIVE reConcat(_, _, _, _)
reConcat(subs, s, from, k) ==
    IF k > Len(subs) \/ from = {} THEN from
    ELSE reConcat(subs, s, reStep(subs[k], s, from), k + 1)

reIf(cond, i) == IF cond THEN {i} ELSE {}
reEnds(re, s, i) ==
    CASE re.Op = "OpNoMatch" -> {}
      [] re.Op = "OpEmptyMatch" -> {i}
      [] re.Op = "OpLiteral" ->
            reIf(/\ i + Len(re.Rune) <= Len(s)
                 /\ SubSeq(s, i + 1, i + Len(re.Rune)) = re.Rune, i + Len(re.Rune))
      [] re.Op = "OpCharClass" ->
            reIf(/\ i < Len(s)
                 /\ (\E k \in 1..Len(re.Rune) : re.Rune[k] = s[i + 1]) # re.Neg, i + 1)
      [] re.Op = "OpAnyCharNotNL" -> reIf(i < Len(s) /\ s[i + 1] # "\n", i + 1)
      [] re.Op = "OpAnyChar" -> reIf(i < Len(s), i + 1)
      [] re.Op = "OpBeginLine" -> reIf(i = 0 \/ s[i] = "\n", i)
      [] re.Op = "OpEndLine" -> reIf(i = Len(s) \/ s[i + 1] = "\n", i)
      [] re.Op = "OpBeginText" -> reIf(i = 0, i)
      [] re.Op = "OpEndText" -> reIf(i = Len(s), i)
      [] re.Op = "OpWordBoundary" -> reIf(wordAt(s, i) # wordAt(s, i + 1), i)
      [] re.Op = "OpNoWordBoundary" -> reIf(wordAt(s, i) = wordAt(s, i + 1), i)
      [] re.Op = "OpCapture" -> reEnds(re.Sub[1], s, i)
      [] re.Op = "OpStar" -> reClosure(re.Sub[1], s, {i}, {i})
      [] re.Op = "OpPlus" -> reRepeat(re.Sub[1], s, reEnds(re.Sub[1], s, i), -1)
      [] re.Op = "OpQuest" -> {i} \cup reEnds(re.Sub[1], s, i)
      [] re.Op = "OpRepeat" ->
            reRepeat(re.Sub[1], s, reTimes(re.Sub[1], s, {i}, re.Min),
                     IF re.Max = -1 THEN -1 ELSE re.Max - re.Min)
      [] re.Op = "OpConcat" -> reConcat(re.Sub, s, {i}, 1)
      [] re.Op = "OpAlternate" ->
            UNION {reEnds(re.Sub[k], s, i) : k \in 1..Len(re.Sub)}

\* func (re *Regexp) MatchString(s string): a match may start at any place
MatchString(re, s) == \E i \in 0..Len(s) : reEnds(re, s, i) # {}

\* func (v *RegexValidator) Validate(val string)
RegexValidate(cfg, val) ==
    IF cfg.Pattern = NilRegexp THEN Res(FALSE, "regex pattern not set")
    ELSE IF ~MatchString(cfg.Pattern, val)
    THEN Res(FALSE, "value %q does not match pattern %q")
    ELSE Res(TRUE, Nil)

\* time/format.go. A layout is cut into the pieces nextStdChunk finds: the
\* text before an element of the reference time, the element, and the rest.
\* hasAt tells whether text t stands at place i of s.
hasAt(s, i, t) == i + Len(t) - 1 <= Len(s) /\ SubSeq(s, i, i + Len(t) - 1) = t
isDigit(s, i) == i <= Len(s) /\ IsDigit(s[i])
startsWithLowerCase(s, i) ==
    i <= Len(s) /\ IsLetter(s[i]) /\ s[i] \notin UpperLetters

\* the element that starts at place i of the layout, if any: its name, the
\* place it starts at (after the "_" before "2006"), its length, and the
\* number of digits of a fraction
Std(std, from, n, arg) == [std |-> std, from |-> from, n |-> n, arg |-> arg]
NoStd == Std(Nil, 0, 0, 0)

\* the place after the run of the digit at place i
RECURSIVE runEnd(_, _, _)
runEnd(s, j, ch) == IF j <= Len(s) /\ s[j] = ch THEN runEnd(s, j + 1,
      ch) ELSE j

stdFractionalSecond(layout, i, j) ==
    IF isDigit(layout, j) THEN NoStd
    ELSE Std(IF layout[i + 1] = "0" THEN "stdFracSecond0" ELSE "stdFracSecond9",
             i, j - i, j - (i + 1))

stdAt(layout, i) ==
    CASE layout[i] = "J" ->
            IF hasAt(layout, i, <<"J", "a", "n", "u", "a", "r",
                  "y">>) THEN Std("stdLongMonth", i, 7, 0)
            ELSE IF hasAt(layout, i, <<"J", "a",
                  "n">>) /\ ~startsWithLowerCase(layout, i + 3)
            THEN Std("stdMonth", i, 3, 0)
            ELSE NoStd
      [] layout[i] = "M" ->
            IF hasAt(layout, i, <<"M", "o", "n", "d", "a",
                  "y">>) THEN Std("stdLongWeekDay", i, 6, 0)
            ELSE IF hasAt(layout, i, <<"M", "o",
                  "n">>) /\ ~startsWithLowerCase(layout, i + 3)
            THEN Std("stdWeekDay", i, 3, 0)
            ELSE IF hasAt(layout, i, <<"M", "S", "T">>) THEN Std("stdTZ", i,
                  3, 0)
            ELSE NoStd
      [] layout[i] = "0" ->
            IF hasAt(layout, i, <<"0", "1">>) THEN Std("stdZeroMonth", i, 2,
                  0)
            ELSE IF hasAt(layout, i, <<"0", "2">>) THEN Std("stdZeroDay", i,
                  2, 0)
            ELSE IF hasAt(layout, i, <<"0", "3">>) THEN Std("stdZeroHour12",
                  i, 2, 0)
            ELSE IF hasAt(layout, i, <<"0", "4">>) THEN Std("stdZeroMinute",
                  i, 2, 0)
            ELSE IF hasAt(layout, i, <<"0", "5">>) THEN Std("stdZeroSecond",
                  i, 2, 0)
            ELSE IF hasAt(layout, i, <<"0", "6">>) THEN Std("stdYear", i, 2,
                  0)
            ELSE IF hasAt(layout, i, <<"0", "0",
                  "2">>) THEN Std("stdZeroYearDay", i, 3, 0)
            ELSE NoStd
      [] layout[i] = "1" ->
            IF hasAt(layout, i, <<"1", "5">>) THEN Std("stdHour", i, 2, 0)
            ELSE Std("stdNumMonth", i, 1, 0)
      [] layout[i] = "2" ->
            IF hasAt(layout, i, <<"2", "0", "0",
                  "6">>) THEN Std("stdLongYear", i, 4, 0)
            ELSE Std("stdDay", i, 1, 0)
      [] layout[i] = "_" ->
            IF hasAt(layout, i, <<"_", "2", "0", "0",
                  "6">>) THEN Std("stdLongYear", i + 1, 4, 0)
            ELSE IF hasAt(layout, i, <<"_", "2">>) THEN Std("stdUnderDay", i,
                  2, 0)
            ELSE IF hasAt(layout, i, <<"_", "_",
                  "2">>) THEN Std("stdUnderYearDay", i, 3, 0)
            ELSE NoStd
      [] layout[i] = "3" -> Std("stdHour12", i, 1, 0)
      [] layout[i] = "4" -> Std("stdMinute", i, 1, 0)
      [] layout[i] = "5" -> Std("stdSecond", i, 1, 0)
      [] layout[i] = "P" ->
            IF hasAt(layout, i, <<"P", "M">>) THEN Std("stdPM", i, 2,
                  0) ELSE NoStd
      [] layout[i] = "p" ->
            IF hasAt(layout, i, <<"p", "m">>) THEN Std("stdpm", i, 2,
                  0) ELSE NoStd
      [] layout[i] = "-" ->
            IF hasAt(layout, i, <<"-", "0", "7", "0", "0", "0",
                  "0">>) THEN Std("stdNumSecondsTz", i, 7, 0)
            ELSE IF hasAt(layout, i, <<"-", "0", "7", ":", "0", "0", ":",
                  "0", "0">>)
            THEN Std("stdNumColonSecondsTZ", i, 9, 0)
            ELSE IF hasAt(layout, i, <<"-", "0", "7", "0",
                  "0">>) THEN Std("stdNumTZ", i, 5, 0)
            ELSE IF hasAt(layout, i, <<"-", "0", "7", ":", "0",
                  "0">>) THEN Std("stdNumColonTZ", i, 6, 0)
            ELSE IF hasAt(layout, i, <<"-", "0",
                  "7">>) THEN Std("stdNumShortTZ", i, 3, 0)
            ELSE NoStd
      [] layout[i] = "Z" ->
            IF hasAt(layout, i, <<"Z", "0", "7", "0", "0", "0",
                  "0">>) THEN Std("stdISO8601SecondsTZ", i, 7, 0)
            ELSE IF hasAt(layout, i, <<"Z", "0", "7", ":", "0", "0", ":",
                  "0", "0">>)
            THEN Std("stdISO8601ColonSecondsTZ", i, 9, 0)
            ELSE IF hasAt(layout, i, <<"Z", "0", "7", "0",
                  "0">>) THEN Std("stdISO8601TZ", i, 5, 0)
            ELSE IF hasAt(layout, i, <<"Z", "0", "7", ":", "0",
                  "0">>) THEN Std("stdISO8601ColonTZ", i, 6, 0)
            ELSE IF hasAt(layout, i, <<"Z", "0",
                  "7">>) THEN Std("stdISO8601ShortTZ", i, 3, 0)
            ELSE NoStd
      [] layout[i] \in {".", ","} ->
            IF i + 1 <= Len(layout) /\ layout[i + 1] \in {"0", "9"}
            THEN stdFractionalSecond(layout, i, runEnd(layout, i + 1,
                  layout[i + 1]))
            ELSE NoStd
      [] OTHER -> NoStd

\* func nextStdChunk(layout string) (prefix string, std int, suffix string)
chunkOf(layout, e) ==
    [prefix |-> SubSeq(layout, 1, e.from - 1), std |-> e.std, arg |-> e.arg,
     suffix |-> SubSeq(layout, e.from + e.n, Len(layout))]
nextStdChunk(layout) ==
    IF \E i \in 1..Len(layout) : stdAt(layout, i) # NoStd
    THEN chunkOf(layout, stdAt(layout, CHOOSE i \in 1..Len(layout) :
                    /\ stdAt(layout, i) # NoStd
                    /\ \A k \in 1..(i - 1) : stdAt(layout, k) = NoStd))
    ELSE [prefix |-> layout, std |-> Nil, arg |-> 0, suffix |-> <<>>]

\* func skip(value, prefix string): the value without the prefix, a space of
\* the prefix standing for any number of spaces; ok tells of no error
RECURSIVE cutspace(_)
cutspace(s) == IF s # <<>> /\ Head(s) = " " THEN cutspace(Tail(s)) ELSE s
RECURSIVE skip(_, _)
skip(value, prefix) ==
    IF prefix = <<>> THEN [value |-> value, ok |-> TRUE]
    ELSE IF Head(prefix) = " "
    THEN (IF value # <<>> /\ Head(value) # " " THEN [value |-> value,
          ok |-> FALSE]
          ELSE skip(cutspace(value), cutspace(prefix)))
    ELSE IF value = <<>> \/ Head(value) # Head(prefix)
    THEN [value |-> value, ok |-> FALSE]
    ELSE skip(Tail(value), Tail(prefix))

\* what the readers of a number or a name give: the number, the value left,
\* and whether there was no error
Got(n, value, ok) == [n |-> n, value |-> value, ok |-> ok]

\* func getnum(s string, fixed bool): one digit or two, two when fixed
getnum(s, fixed) ==
    IF ~isDigit(s, 1) THEN Got(0, s, FALSE)
    ELSE IF ~isDigit(s, 2)
    THEN (IF fixed THEN Got(0, s, FALSE) ELSE Got(DigitVal(s[1]), Tail(s),
          TRUE))
    ELSE Got(Num2(s, 1), SubSeq(s, 3, Len(s)), TRUE)

\* func getnum3(s string, fixed bool): one to three digits, three when fixed
getnum3Of(s, fixed, i) ==
    IF i = 0 \/ (fixed /\ i # 3) THEN Got(0, s, FALSE)
    ELSE Got(DecimalVal(SubSeq(s, 1, i)), SubSeq(s, i + 1, Len(s)), TRUE)
getnum3(s, fixed) ==
    getnum3Of(s, fixed, IF ~isDigit(s, 1) THEN 0 ELSE IF ~isDigit(s, 2) THEN 1
                        ELSE IF ~isDigit(s, 3) THEN 2 ELSE 3)

\* func atoi(s): a sign if any, then digits only; no digit at all reads as 0
atoi(s) ==
    IF s # <<>> /\ Head(s) \in {"+", "-"}
    THEN (IF \A i \in 2..Len(s) : IsDigit(s[i])
          THEN Got((IF Head(s) = "-" THEN 0 - 1 ELSE 1)
                   * (IF Len(s) = 1 THEN 0 ELSE DecimalVal(Tail(s))), <<>>,
                         TRUE)
          ELSE Got(0, <<>>, FALSE))
    ELSE IF \A i \in 1..Len(s) : IsDigit(s[i])
    THEN Got(IF s = <<>> THEN 0 ELSE DecimalVal(s), <<>>, TRUE)
    ELSE Got(0, <<>>, FALSE)

\* the names of the months and of the days of the week
shortMonthNames ==
    <<<<"J", "a", "n">>, <<"F", "e", "b">>, <<"M", "a", "r">>, <<"A", "p",
          "r">>, <<"M", "a", "y">>, <<"J", "u", "n">>, <<"J", "u", "l">>,
      <<"A", "u", "g">>, <<"S", "e", "p">>, <<"O", "c", "t">>, <<"N", "o",
            "v">>, <<"D", "e", "c">>>>
longMonthNames ==
    <<<<"J", "a", "n", "u", "a", "r", "y">>, <<"F", "e", "b", "r", "u", "a",
          "r", "y">>, <<"M", "a", "r", "c", "h">>, <<"A", "p", "r", "i",
          "l">>, <<"M", "a", "y">>, <<"J", "u", "n", "e">>,
      <<"J", "u", "l", "y">>, <<"A", "u", "g", "u", "s", "t">>, <<"S", "e",
            "p", "t", "e", "m", "b", "e", "r">>, <<"O", "c", "t", "o", "b",
            "e", "r">>, <<"N", "o", "v", "e", "m", "b", "e", "r">>,
      <<"D", "e", "c", "e", "m", "b", "e", "r">>>>
shortDayNames ==
    <<<<"S", "u", "n">>, <<"M", "o", "n">>, <<"T", "u", "e">>, <<"W", "e",
          "d">>, <<"T", "h", "u">>, <<"F", "r", "i">>, <<"S", "a", "t">>>>
longDayNames ==
    <<<<"S", "u", "n", "d", "a", "y">>, <<"M", "o", "n", "d", "a", "y">>,
          <<"T", "u", "e", "s", "d", "a", "y">>, <<"W", "e", "d", "n", "e",
          "s", "d", "a", "y">>, <<"T", "h", "u", "r", "s", "d", "a", "y">>,
      <<"F", "r", "i", "d", "a", "y">>, <<"S", "a", "t", "u", "r", "d", "a",
            "y">>>>

\* func match(s1, s2 string): equal but for the case of ASCII letters
match(s1, s2) ==
    \A i \in 1..Len(s1) :
        s1[i] = s2[i] \/ (IsLetter(s1[i]) /\ ToLower(s1[i]) = ToLower(s2[i]))

\* func lookup(tab []string, val string): the first name of the table the
\* value starts with, counted from 0
lookupHit(tab, val, i) == Len(val) >= Len(tab[i]) /\ match(SubSeq(val, 1,
      Len(tab[i])), tab[i])
lookup(tab, val) ==
    IF \E i \in 1..Len(tab) : lookupHit(tab, val, i)
    THEN Got((CHOOSE i \in 1..Len(tab) :
                 lookupHit(tab, val,
                       i) /\ \A k \in 1..(i - 1) : ~lookupHit(tab, val,
                       k)) - 1,
             SubSeq(val, Len(tab[CHOOSE i \in 1..Len(tab) :
                 lookupHit(tab, val,
                       i) /\ \A k \in 1..(i - 1) : ~lookupHit(tab, val,
                       k)]) + 1,
                    Len(val)),
             TRUE)
    ELSE Got(0 - 1, val, FALSE)

\* func parseNanoseconds(value, nbytes): "." or "," and the digits of the
\* first nbytes bytes, ten at most; ok is false for an error and for a
\* number out of range
commaOrPeriod(c) == c \in {".", ","}
parseNanoseconds(value, nbytes) ==
    /\ commaOrPeriod(value[1])
    /\ atoi(SubSeq(value, 2, IF nbytes > 10 THEN 10 ELSE nbytes)).ok
    /\ atoi(SubSeq(value, 2, IF nbytes > 10 THEN 10 ELSE nbytes)).n >= 0

\* func parseSignedOffset(value string) int: the length of a sign and a
\* number up to 23, or 0
parseSignedOffset(value) ==
    IF value[1] \notin {"+", "-"} THEN 0
    ELSE IF Len(DigitRun(Tail(value))) = 0 THEN 0
    ELSE IF Len(TrimZeros(DigitRun(Tail(value)))) > 2 THEN 0
    ELSE IF Len(TrimZeros(DigitRun(Tail(value)))) > 0
            /\ DecimalVal(TrimZeros(DigitRun(Tail(value)))) > 23 THEN 0
    ELSE 1 + Len(DigitRun(Tail(value)))

\* func parseGMT(value string) int
parseGMT(value) ==
    IF Len(value) = 3 THEN 3 ELSE 3 + parseSignedOffset(SubSeq(value, 4,
          Len(value)))

\* func parseTimeZone(value string) (length int, ok bool), the name of a
\* zone as in "MST": the number of upper-case letters the value starts
\* with, six at most
nUpperOf(value) ==
    IF \E i \in 1..6 : i > Len(value) \/ value[i] \notin UpperLetters
    THEN (CHOOSE i \in 1..6 :
             /\ i > Len(value) \/ value[i] \notin UpperLetters
             /\ \A k \in 1..(i - 1) : k <= Len(value) /\ value[k] \in UpperLetters) - 1
    ELSE 6
zoneByUpper(value, nUpper) ==
    IF nUpper = 5 /\ value[5] = "T" THEN Got(5, value, TRUE)
    ELSE IF nUpper = 4 /\ (value[4] = "T" \/ hasAt(value, 1, <<"W", "I", "T",
          "A">>))
    THEN Got(4, value, TRUE)
    ELSE IF nUpper = 3 THEN Got(3, value, TRUE)
    ELSE Got(0, value, FALSE)
parseZoneName(value) ==
    IF Len(value) < 3 THEN Got(0, value, FALSE)
    ELSE IF hasAt(value, 1, <<"C", "h", "S", "T">>) \/ hasAt(value, 1, <<"M",
          "e", "S", "T">>)
    THEN Got(4, value, TRUE)
    ELSE IF hasAt(value, 1, <<"G", "M", "T">>) THEN Got(parseGMT(value),
          value, TRUE)
    ELSE IF value[1] \in {"+", "-"}
    THEN Got(parseSignedOffset(value), value, parseSignedOffset(value) > 0)
    ELSE zoneByUpper(value, nUpperOf(value))

\* The time under construction: the value left to read, the fields that
\* decide whether the date exists (-1 for a month, a day or a day of the
\* year not read), and ok, false from the first error on. The hour, the
\* minute, the second, their fraction and the zone are read and checked for
\* their range; no later check looks at them.
valueLeft(st, value) == [st EXCEPT !.value = value]
parseBad(st) == [st EXCEPT !.ok = FALSE]
parseSet(st, field, got, inside) ==
    IF ~got.ok \/ ~inside THEN parseBad(st)
    ELSE [st EXCEPT !.value = got.value, ![field] = got.n]
parseRead(st, got, inside) ==
    IF ~got.ok \/ ~inside THEN parseBad(st) ELSE valueLeft(st, got.value)

\* case stdYear: two bytes read by atoi, from 69 on of the 1900s
stdYearOf(n) == IF n >= 69 THEN n + 1900 ELSE n + 2000
parseYear(st, got) ==
    IF ~got.ok THEN parseBad(st)
    ELSE [st EXCEPT !.value = SubSeq(st.value, 3, Len(st.value)),
                    !.year = stdYearOf(got.n)]

\* case stdLongYear
parseLongYear(st, got) ==
    IF ~got.ok THEN parseBad(st)
    ELSE [st EXCEPT !.value = SubSeq(st.value, 5, Len(st.value)),
          !.year = got.n]

\* case stdMonth, stdLongMonth: month++ after lookup
parseMonthName(st, got) ==
    IF ~got.ok THEN parseBad(st)
    ELSE [st EXCEPT !.value = got.value, !.month = got.n + 1]

\* case stdUnderDay and stdUnderYearDay: the value without one space, or
\* two, that it starts with
cutOne(value) == IF value # <<>> /\ Head(value) = " " THEN Tail(value) ELSE value

\* case stdSecond: a fraction in the value that the layout does not name
secondFraction(st, value, next) ==
    IF /\ Len(value) >= 2 /\ commaOrPeriod(value[1]) /\ isDigit(value, 2)
       /\ next.std \notin {"stdFracSecond0", "stdFracSecond9"}
    THEN valueLeft(st, SubSeq(value, 2 + Len(DigitRun(Tail(value))), Len(value)))
    ELSE valueLeft(st, value)
parseSecond(st, got, next) ==
    IF ~got.ok \/ got.n >= 60 THEN parseBad(st)
    ELSE secondFraction(st, got.value, next)

\* case stdPM, stdpm
parseHalf(st, am, pm) ==
    IF Len(st.value) < 2 THEN parseBad(st)
    ELSE IF SubSeq(st.value, 1, 2) \in {am, pm}
    THEN valueLeft(st, SubSeq(st.value, 3, Len(st.value)))
    ELSE parseBad(st)

\* case stdNumTZ and the like: a sign, the hours, and with the layout the
\* minutes and the seconds, with colons between where the layout has them;
\* at most 24 hours, 60 minutes and 60 seconds
offsetParts(value, n, colons, parts) ==
    /\ Len(value) >= n
    /\ \A k \in colons : value[k] = ":"
    /\ \A k \in parts : getnum(SubSeq(value, k, k + 1), TRUE).ok
    /\ \A k \in parts : getnum(SubSeq(value, k, k + 1),
          TRUE).n <= (IF k = 2 THEN 24 ELSE 60)
    /\ value[1] \in {"+", "-"}
parseOffsetOf(st, n, colons, parts) ==
    IF offsetParts(st.value, n, colons, parts)
    THEN valueLeft(st, SubSeq(st.value, n + 1, Len(st.value)))
    ELSE parseBad(st)
parseOffset(st, std) ==
    IF std \in {"stdISO8601ColonTZ", "stdNumColonTZ"}
    THEN parseOffsetOf(st, 6, {4}, {2, 5})
    ELSE IF std \in {"stdNumShortTZ", "stdISO8601ShortTZ"}
    THEN parseOffsetOf(st, 3, {}, {2})
    ELSE IF std \in {"stdISO8601ColonSecondsTZ", "stdNumColonSecondsTZ"}
    THEN parseOffsetOf(st, 9, {4, 7}, {2, 5, 8})
    ELSE IF std \in {"stdISO8601SecondsTZ", "stdNumSecondsTz"}
    THEN parseOffsetOf(st, 7, {}, {2, 4, 6})
    ELSE parseOffsetOf(st, 5, {}, {2, 4})
parseISO8601(st, std) ==
    IF st.value # <<>> /\ Head(st.value) = "Z" THEN valueLeft(st, Tail(st.value))
    ELSE parseOffset(st, std)

\* case stdTZ
parseTZOf(st, got) ==
    IF ~got.ok THEN parseBad(st)
    ELSE valueLeft(st, SubSeq(st.value, got.n + 1, Len(st.value)))
parseTZ(st) ==
    IF hasAt(st.value, 1, <<"U", "T", "C">>) THEN valueLeft(st, SubSeq(st.value,
          4, Len(st.value)))
    ELSE parseTZOf(st, parseZoneName(st.value))

\* case stdFracSecond0: as many digits as the layout has
parseFrac0(st, ndigit) ==
    IF Len(st.value) < ndigit THEN parseBad(st)
    ELSE IF ~parseNanoseconds(st.value, ndigit) THEN parseBad(st)
    ELSE valueLeft(st, SubSeq(st.value, ndigit + 1, Len(st.value)))

\* case stdFracSecond9: any number of digits, or no fraction
parseFrac9(st) ==
    IF Len(st.value) < 2 \/ ~commaOrPeriod(st.value[1]) \/ ~isDigit(st.value,
          2)
    THEN st
    ELSE valueLeft(st, SubSeq(st.value, 2 + Len(DigitRun(Tail(st.value))),
          Len(st.value)))

\* one element of the layout read from the value
parseStd(st, std, arg, rest) ==
    CASE std = "stdYear" ->
            IF Len(st.value) < 2 THEN parseBad(st)
            ELSE parseYear(st, atoi(SubSeq(st.value, 1, 2)))
      [] std = "stdLongYear" ->
            IF Len(st.value) < 4 \/ ~isDigit(st.value, 1) THEN parseBad(st)
            ELSE parseLongYear(st, atoi(SubSeq(st.value, 1, 4)))
      [] std = "stdMonth" -> parseMonthName(st, lookup(shortMonthNames,
            st.value))
      [] std = "stdLongMonth" -> parseMonthName(st, lookup(longMonthNames,
            st.value))
      [] std \in {"stdNumMonth", "stdZeroMonth"} ->
            parseSet(st, "month", getnum(st.value, std = "stdZeroMonth"),
                     getnum(st.value, std = "stdZeroMonth").n \in 1..12)
      [] std = "stdWeekDay" -> parseRead(st, lookup(shortDayNames, st.value),
            TRUE)
      [] std = "stdLongWeekDay" -> parseRead(st, lookup(longDayNames,
            st.value), TRUE)
      [] std \in {"stdDay", "stdZeroDay"} ->
            parseSet(st, "day", getnum(st.value, std = "stdZeroDay"), TRUE)
      [] std = "stdUnderDay" ->
            parseSet(st, "day", getnum(cutOne(st.value), FALSE), TRUE)
      [] std = "stdZeroYearDay" ->
            parseSet(st, "yday", getnum3(st.value, TRUE), TRUE)
      [] std = "stdUnderYearDay" ->
            parseSet(st, "yday", getnum3(cutOne(cutOne(st.value)), FALSE),
                  TRUE)
      [] std = "stdHour" ->
            parseRead(st, getnum(st.value, FALSE), getnum(st.value,
                  FALSE).n < 24)
      [] std \in {"stdHour12", "stdZeroHour12"} ->
            parseRead(st, getnum(st.value, std = "stdZeroHour12"),
                      getnum(st.value, std = "stdZeroHour12").n <= 12)
      [] std \in {"stdMinute", "stdZeroMinute"} ->
            parseRead(st, getnum(st.value, std = "stdZeroMinute"),
                      getnum(st.value, std = "stdZeroMinute").n < 60)
      [] std \in {"stdSecond", "stdZeroSecond"} ->
            parseSecond(st, getnum(st.value, std = "stdZeroSecond"),
                  nextStdChunk(rest))
      [] std = "stdPM" -> parseHalf(st, <<"A", "M">>, <<"P", "M">>)
      [] std = "stdpm" -> parseHalf(st, <<"a", "m">>, <<"p", "m">>)
      [] std \in {"stdISO8601TZ", "stdISO8601ShortTZ", "stdISO8601ColonTZ",
                  "stdISO8601SecondsTZ", "stdISO8601ColonSecondsTZ"} ->
            parseISO8601(st, std)
      [] std \in {"stdNumTZ", "stdNumShortTZ", "stdNumColonTZ",
                  "stdNumSecondsTz", "stdNumColonSecondsTZ"} ->
            parseOffset(st, std)
      [] std = "stdTZ" -> parseTZ(st)
      [] std = "stdFracSecond0" -> parseFrac0(st, 1 + arg)
      [] std = "stdFracSecond9" -> parseFrac9(st)

\* after the layout: the day of the year, if read, gives the month and the
\* day, which must be the ones read; the day must exist in its month
daysBefore == <<0, 31, 59, 90, 120, 151, 181, 212, 243, 273, 304, 334, 365>>
ydayOf(year, yday) == IF Leap(year) /\ yday > 60 THEN yday - 1 ELSE yday
monthOfYday(yday) ==
    IF daysBefore[(yday - 1) \div 31 + 2] < yday
    THEN (yday - 1) \div 31 + 2
    ELSE (yday - 1) \div 31 + 1
ydayDate(leapDay, yday) ==
    IF leapDay THEN [m |-> 2, d |-> 29]
    ELSE [m |-> monthOfYday(yday), d |-> yday - daysBefore[monthOfYday(yday)]]
dateByYday(st, yday, date) ==
    /\ yday >= 1 /\ yday <= 365
    /\ (st.month >= 0 => st.month = date.m)
    /\ (st.day >= 0 => st.day = date.d)
    /\ date.d >= 1 /\ date.d <= daysIn(date.m, st.year)
dateRead(year, month, day) == day >= 1 /\ day <= daysIn(month, year)
parseDate(st) ==
    IF st.yday >= 0
    THEN dateByYday(st, ydayOf(st.year, st.yday),
                    IF ydayOf(st.year, st.yday) >= 1 /\ ydayOf(st.year,
                          st.yday) <= 365
                    THEN ydayDate(Leap(st.year) /\ st.yday = 60,
                          ydayOf(st.year, st.yday))
                    ELSE [m |-> 1, d |-> 1])
    ELSE dateRead(st.year, IF st.month < 0 THEN 1 ELSE st.month,
                  IF st.day < 0 THEN 1 ELSE st.day)

\* func parse(layout, value string, defaultLocation, local *Location): one
\* element of the layout after the other, up to the first error
RECURSIVE parse(_, _)
parseElement(chunk, st, skipped) ==
    IF ~skipped.ok THEN FALSE
    ELSE IF chunk.std = Nil THEN skipped.value = <<>> /\ parseDate(st)
    ELSE parse(chunk.suffix, parseStd(valueLeft(st, skipped.value), chunk.std,
                                       chunk.arg, chunk.suffix))
parseChunk(chunk, st) == parseElement(chunk, st, skip(st.value, chunk.prefix))
parse(layout,
      st) == IF ~st.ok THEN FALSE ELSE parseChunk(nextStdChunk(layout), st)

\* func Parse(layout, value string) (Time, error), for whether the error is
\* nil. For the layouts RFC3339 and RFC3339Nano Parse tries parseRFC3339
\* first, which takes no value that parse refuses.
Parse(layout, value) ==
    parse(layout, [value |-> value, year |-> 0, month |-> 0 - 1,
          day |-> 0 - 1,
                   yday |-> 0 - 1, ok |-> TRUE])

RFC3339 == <<"2", "0", "0", "6", "-", "0", "1", "-", "0", "2", "T", "1", "5",
      ":", "0", "4", ":", "0", "5", "Z", "0", "7", ":", "0", "0">>

\* func (v *TimeValidator) Validate(val string)
timeLayout(format) == IF format = <<>> THEN RFC3339 ELSE format
TimeValidate(cfg, val) ==
    IF ~Parse(timeLayout(TrimSpace(cfg.Format)), val)
    THEN Res(FALSE, "invalid time %q for layout %q: %v")
    ELSE Res(TRUE, Nil)

\* net/mail. The parser's state is the text left to read; an operation
\* gives the text left after it and whether it had no error. specials and
\* literal name the standard library of the build: whether an atom of a
\* phrase may hold the special characters but "<", ">", ":" and the quote,
\* and whether the domain may be a literal in brackets.
isWSP(c) == c \in {" ", "\t"}
isVchar(c) == (c \in PrintableSet /\ c # " ") \/ ~IsASCII(c)
isQtext(c) == c \notin {"\\", "\""} /\ isVchar(c)
isDtext(c) == c \notin {"[", "]", "\\"} /\ isVchar(c)
isAtext(c, dot, permissive) ==
    IF c = "." THEN dot
    ELSE IF c \in {"(", ")", "[", "]", ";", "@", "\\", ","} THEN permissive
    ELSE IF c \in {"<", ">", "\"", ":"} THEN FALSE
    ELSE isVchar(c)
Left(s, ok) == [s |-> s, ok |-> ok]
peekIs(s, c) == s # <<>> /\ Head(s) = c

\* func (p *addrParser) skipSpace()
RECURSIVE skipSpace(_)
skipSpace(s) == IF s # <<>> /\ isWSP(Head(s)) THEN skipSpace(Tail(s)) ELSE s

\* func (p *addrParser) consumeComment() (string, bool), "(" being read:
\* up to the ")" that closes the comment, "\" taking the next byte along
RECURSIVE consumeComment(_, _, _)
commentStep(s, depth, comment) ==
    consumeComment(Tail(s), depth, IF depth > 0 THEN Append(comment,
          Head(s)) ELSE comment)
consumeComment(s, depth, comment) ==
    IF s = <<>> \/ depth = 0 THEN [s |-> s, ok |-> depth = 0,
          comment |-> comment]
    ELSE IF Head(s) = "\\" /\ Len(s) > 1 THEN commentStep(Tail(s), depth, comment)
    ELSE IF Head(s) = "(" THEN commentStep(s, depth + 1, comment)
    ELSE IF Head(s) = ")" THEN commentStep(s, depth - 1, comment)
    ELSE commentStep(s, depth, comment)

\* func (p *addrParser) skipCFWS() bool
RECURSIVE skipCFWS(_)
skipCFWSAfter(c) == IF ~c.ok THEN Left(c.s, FALSE) ELSE skipCFWS(c.s)
skipCFWSAt(s) ==
    IF peekIs(s, "(") THEN skipCFWSAfter(consumeComment(Tail(s), 1, <<>>))
    ELSE Left(s, TRUE)
skipCFWS(s) == skipCFWSAt(skipSpace(s))

\* mime qDecode: printable ASCII, "_" for a space, "=" with two
\* hexadecimal digits
RECURSIVE qDecode(_, _)
qDecode(s, i) ==
    IF i > Len(s) THEN TRUE
    ELSE IF s[i] = "_" THEN qDecode(s, i + 1)
    ELSE IF s[i] = "="
    THEN /\ i + 2 <= Len(s) /\ s[i + 1] \in HexDigits /\ s[i + 2] \in HexDigits
         /\ qDecode(s, i + 3)
    ELSE (s[i] \in PrintableSet \/ s[i] \in {"\n", "\r", "\t"}) /\ qDecode(s,
          i + 1)

\* mime decode
mimeDecode(encoding, text) ==
    IF encoding \in {"B", "b"} THEN base64Std(base64Text(text))
    ELSE IF encoding \in {"Q", "q"} THEN qDecode(text, 1)
    ELSE FALSE

\* strings.EqualFold, for a text of ASCII letters on the right: the letters
\* of either case, and the two characters outside ASCII that fold to one
simpleFold(c) ==
    IF c = "U+017F" THEN "s" ELSE IF c = "U+212A" THEN "k" ELSE ToLower(c)
EqualFold(s, t) ==
    Len(s) = Len(t) /\ \A i \in 1..Len(s) : simpleFold(s[i]) = simpleFold(t[i])

\* func (d *WordDecoder) convert: the charsets the decoder knows; for any
\* other it asks the CharsetReader, which net/mail sets to answer with a
\* charsetError
knownCharset(charset) ==
    \/ EqualFold(charset, <<"u", "t", "f", "-", "8">>)
    \/ EqualFold(charset, <<"i", "s", "o", "-", "8", "8", "5", "9", "-",
          "1">>)
    \/ EqualFold(charset, <<"u", "s", "-", "a", "s", "c", "i", "i">>)

\* func (p *addrParser) decodeRFC2047Word(s string), for whether its error
\* is a charsetError: the word is "=?charset?encoding?text?=", the text
\* decodes, and the charset is not known. Every other error of the decoder
\* is dropped.
encodedWord(w, split) ==
    /\ split > 1
    /\ Len(w) >= split + 2
    /\ w[split + 2] = "?"
    /\ mimeDecode(w[split + 1], SubSeq(w, split + 3, Len(w)))
    /\ ~knownCharset(SubSeq(w, 1, split - 1))
charsetError(word) ==
    /\ Len(word) >= 8
    /\ HasPrefix(word, <<"=", "?">>) /\ HasSuffix(word, <<"?", "=">>)
    /\ Cardinality({i \in 1..Len(word) : word[i] = "?"}) = 4
    /\ encodedWord(SubSeq(word, 3, Len(word) - 2),
                   IndexByte(SubSeq(word, 3, Len(word) - 2), "?"))

\* func (p *addrParser) consumeQuotedString(), the text starting with the
\* quote: the place of the closing quote, 0 for an error
RECURSIVE consumeQuotedString(_, _, _)
consumeQuotedString(s, i, escaped) ==
    IF i > Len(s) THEN 0
    ELSE IF escaped
    THEN (IF isVchar(s[i]) \/ isWSP(s[i]) THEN consumeQuotedString(s, i + 1,
          FALSE)
          ELSE 0)
    ELSE IF isQtext(s[i]) \/ isWSP(s[i]) THEN consumeQuotedString(s, i + 1,
          FALSE)
    ELSE IF s[i] = "\"" THEN i
    ELSE IF s[i] = "\\" THEN consumeQuotedString(s, i + 1, TRUE)
    ELSE 0

\* func (p *addrParser) consumeAtom(dot bool, permissive bool): the
\* characters of an atom the text starts with; without permissive no dot
\* at either end and no two dots in a row
atomLen(s, dot, permissive) ==
    IF \E i \in 1..Len(s) : ~isAtext(s[i], dot, permissive)
    THEN (CHOOSE i \in 1..Len(s) :
             /\ ~isAtext(s[i], dot, permissive)
             /\ \A k \in 1..(i - 1) : isAtext(s[k], dot, permissive)) - 1
    ELSE Len(s)
consumeAtomOf(s, i, permissive) ==
    IF i = 0 THEN Left(s, FALSE)
    ELSE IF /\ ~permissive
            /\ \/ s[1] = "."
               \/ Contains(SubSeq(s, 1, i), <<".", ".">>)
               \/ s[i] = "."
    THEN Left(SubSeq(s, i + 1, Len(s)), FALSE)
    ELSE Left(SubSeq(s, i + 1, Len(s)), TRUE)
consumeAtom(s, dot, permissive, specials) ==
    consumeAtomOf(s, atomLen(s, dot, permissive /\ specials), permissive)

\* func (p *addrParser) consumeDomainLiteral(), the text starting with "[":
\* an address net.ParseIP takes, between the brackets
domainLiteral(s, close, longGroups) ==
    IF /\ close # 0
       /\ \A i \in 2..(close - 1) : isDtext(s[i])
       /\ ParseIP(SubSeq(s, 2, close - 1), longGroups) # NilIP
    THEN Left(SubSeq(s, close + 1, Len(s)), TRUE)
    ELSE Left(s, FALSE)
consumeDomainLiteral(s, longGroups) == domainLiteral(s, IndexByte(s, "]"),
      longGroups)

\* func (p *addrParser) consumeAddrSpec(): the local part, a dot-atom or a
\* quoted string that is not empty, "@", and the domain
quotedLocalPart(s, close) ==
    IF close = 0 \/ close = 2 THEN Left(s, FALSE)
    ELSE Left(SubSeq(s, close + 1, Len(s)), TRUE)
localPart(s, build) ==
    IF s = <<>> THEN Left(s, FALSE)
    ELSE IF Head(s) = "\"" THEN quotedLocalPart(s, consumeQuotedString(s, 2,
          FALSE))
    ELSE consumeAtom(s, TRUE, FALSE, build.specials)
domain(s, build) ==
    IF s = <<>> THEN Left(s, FALSE)
    ELSE IF Head(s) = "[" /\ build.literal
    THEN consumeDomainLiteral(s, build.longGroups)
    ELSE consumeAtom(s, TRUE, FALSE, build.specials)
addrSpecAt(local, build) ==
    IF ~local.ok \/ ~peekIs(local.s, "@") THEN Left(local.s, FALSE)
    ELSE domain(skipSpace(Tail(local.s)), build)
consumeAddrSpec(s, build) == addrSpecAt(localPart(skipSpace(s), build), build)

\* func (p *addrParser) consumePhrase(): words, each a quoted string or an
\* atom, with comments between; an error of a word ends the phrase, and is
\* the error of the phrase when no word came before
RECURSIVE consumePhrase(_, _, _)
phraseAtom(s, n, hasWords, build) ==
    IF n = 0 THEN Left(s, hasWords)
    ELSE IF charsetError(SubSeq(s, 1, n)) THEN Left(SubSeq(s, n + 1, Len(s)),
          hasWords)
    ELSE consumePhrase(SubSeq(s, n + 1, Len(s)), TRUE, build)
phraseQuoted(s, close, hasWords, build) ==
    IF close = 0 THEN Left(s, hasWords)
    ELSE consumePhrase(SubSeq(s, close + 1, Len(s)), TRUE, build)
phraseWord(s, hasWords, build) ==
    IF s = <<>> THEN Left(s, TRUE)
    ELSE IF Head(s) = "\""
    THEN phraseQuoted(s, consumeQuotedString(s, 2, FALSE), hasWords, build)
    ELSE phraseAtom(s, atomLen(s, TRUE, build.specials), hasWords, build)
phraseCFWS(c, build) ==
    IF ~c.ok THEN Left(c.s, FALSE) ELSE phraseWord(skipSpace(c.s), TRUE,
          build)
consumePhrase(s, hasWords, build) ==
    IF hasWords THEN phraseCFWS(skipCFWS(s), build)
    ELSE phraseWord(skipSpace(s), FALSE, build)

\* func (p *addrParser) consumeDisplayNameComment(), the comment after an
\* addr-spec: its words are the runs between spaces and tabs
\* (strings.FieldsFunc), and the charsetError of a word is an error
isField(comment, i, j) ==
    /\ i <= j
    /\ \A k \in i..j : ~isWSP(comment[k])
    /\ i = 1 \/ isWSP(comment[i - 1])
    /\ j = Len(comment) \/ isWSP(comment[j + 1])
displayNameOf(c) ==
    IF ~c.ok THEN [s |-> c.s, ok |-> FALSE, n |-> 0]
    ELSE IF \E i \in 1..Len(c.comment) : \E j \in 1..Len(c.comment) :
               isField(c.comment, i, j) /\ charsetError(SubSeq(c.comment, i,
                     j))
    THEN [s |-> c.s, ok |-> FALSE, n |-> 0]
    ELSE [s |-> c.s, ok |-> TRUE, n |-> 1]
consumeDisplayNameComment(s) ==
    IF peekIs(s, "(") THEN displayNameOf(consumeComment(Tail(s), 1, <<>>))
    ELSE [s |-> s, ok |-> TRUE, n |-> 1]

\* func (p *addrParser) parseAddress(handleGroup bool) and
\* func (p *addrParser) consumeGroupList(): the text left, whether there
\* was no error, and the number of addresses read. An address is an
\* addr-spec with a comment after it if any, or a phrase if any and an
\* addr-spec between "<" and ">", or a phrase, ":" and a list that ends
\* with ";".
NoAddress(s) == [s |-> s, ok |-> FALSE, n |-> 0]
RECURSIVE parseAddress(_, _, _)
RECURSIVE consumeGroupList(_, _, _)
groupEnd(c, n) == IF ~c.ok THEN NoAddress(c.s) ELSE [s |-> c.s, ok |-> TRUE,
      n |-> n]
groupNext(c, n, build) ==
    IF ~c.ok THEN NoAddress(c.s)
    ELSE IF peekIs(c.s, ";") THEN groupEnd(skipCFWS(Tail(c.s)), n)
    ELSE IF peekIs(c.s, ",") THEN consumeGroupList(Tail(c.s), n, build)
    ELSE NoAddress(c.s)
groupMember(a, n, build) ==
    IF ~a.ok THEN a ELSE groupNext(skipCFWS(a.s), n + a.n, build)
consumeGroupList(s, n, build) == groupMember(parseAddress(s, FALSE, build),
      n, build)
groupStart(s, build) ==
    IF peekIs(s, ";") THEN groupEnd(skipCFWS(Tail(s)), 0)
    ELSE consumeGroupList(s, 0, build)

angleClose(spec) ==
    IF ~spec.ok \/ ~peekIs(spec.s, ">") THEN NoAddress(spec.s)
    ELSE [s |-> Tail(spec.s), ok |-> TRUE, n |-> 1]
afterPhrase(s, handleGroup, build) ==
    IF handleGroup /\ peekIs(s, ":") THEN groupStart(skipSpace(Tail(s)),
          build)
    ELSE IF ~peekIs(s, "<") THEN NoAddress(s)
    ELSE angleClose(consumeAddrSpec(Tail(s), build))
afterName(phrase, handleGroup, build) ==
    IF ~phrase.ok THEN NoAddress(phrase.s)
    ELSE afterPhrase(skipSpace(phrase.s), handleGroup, build)
nameAddr(s, handleGroup, build) ==
    IF peekIs(s, "<") THEN afterPhrase(s, handleGroup, build)
    ELSE afterName(consumePhrase(s, FALSE, build), handleGroup, build)
addressOf(s, spec, handleGroup, build) ==
    IF spec.ok THEN consumeDisplayNameComment(skipSpace(spec.s))
    ELSE nameAddr(s, handleGroup, build)
addressAt(s, handleGroup, build) ==
    IF s = <<>> THEN NoAddress(s)
    ELSE addressOf(s, consumeAddrSpec(s, build), handleGroup, build)
parseAddress(s, handleGroup, build) == addressAt(skipSpace(s), handleGroup,
      build)

\* func (p *addrParser) parseSingleAddress(): one address, and after it
\* comments only
singleEnd(c, n) == c.ok /\ c.s = <<>> /\ n = 1
parseSingleAddress(a) == a.ok /\ singleEnd(skipCFWS(a.s), a.n)

\* mail.ParseAddress(address): whether the error it returns is nil
ParseAddress(address, build) ==
    parseSingleAddress(parseAddress(address, TRUE, build))

\* func (v *EmailValidator) Validate(val string): ok is set where the error
\* is nil, and the error is the one of ParseAddress, whichever of the
\* errors of net/mail it is
EmailValidateOf(err) == Res(err = Nil, err)
EmailValidate(cfg, val) ==
    EmailValidateOf(IF ParseAddress(val, cfg.build) THEN Nil ELSE "mail: error")

\* encoding/xml (xml.go), the Decoder as xml.NewDecoder builds it: Strict,
\* no Entity map and no CharsetReader. A place 0 stands for d.err set.
\* The tables first and second hold, of the characters outside ASCII, the
\* ones written here by code point.
isNameByte(c) == IsAlnum(c) \/ c \in {"_", ":", ".", "-"}
first == {c \in PrintableSet : IsLetter(c)} \cup {"_", ":", "U+00E9", "U+212A"}
second == {c \in PrintableSet : IsDigit(c)} \cup {"-", ".", "U+00B7"}
isName(s) ==
    /\ s # <<>>
    /\ s[1] \in first
    /\ \A k \in 2..Len(s) : s[k] \in first \cup second
isInCharacterRange(c) ==
    c \notin (ControlBytes \ {"\t", "\n", "\r", "U+007F"})
              \cup {"U+FFFE", "U+FFFF"}
\* isInCharacterRange of the character a reference &#n; names; string(rune(n))
\* turns a surrogate half into U+FFFD.
isInRuneRange(n) ==
    \/ n \in {9, 10, 13}
    \/ n >= 32 /\ n <= 1114111 /\ n \notin {65534, 65535}
entity ==
    {<<"l", "t">>, <<"g", "t">>, <<"a", "m", "p">>,
     <<"a", "p", "o", "s">>, <<"q", "u", "o", "t">>}

xmlSpaceByte(c) == c \in {" ", "\r", "\n", "\t"}
\* d.space: the place of the first byte that is no white space.
xmlSpace(s, i) ==
    IF \E j \in i..Len(s) : ~xmlSpaceByte(s[j])
    THEN CHOOSE j \in i..Len(s) :
            ~xmlSpaceByte(s[j]) /\ \A k \in i..(j - 1) : xmlSpaceByte(s[k])
    ELSE Len(s) + 1
xmlNameStop(c) == IsASCII(c) /\ ~isNameByte(c)
\* d.readName: the place after the run of name bytes that starts at i.
readName(s, i) ==
    IF \E j \in i..Len(s) : xmlNameStop(s[j])
    THEN CHOOSE j \in i..Len(s) :
            xmlNameStop(s[j]) /\ \A k \in i..(j - 1) : ~xmlNameStop(s[k])
    ELSE Len(s) + 1
\* d.name: the place after the name, the input ending in the name included
\* in the failures (mustgetc).
xmlNameOf(s, i, j) ==
    IF j = i \/ j > Len(s) \/ ~isName(SubSeq(s, i, j - 1)) THEN 0 ELSE j
xmlName(s, i) == xmlNameOf(s, i, readName(s, i))
colons(s, i, j) == Cardinality({k \in i..(j - 1) : s[k] = ":"})
nsnameOf(s, i, j) == IF j = 0 \/ colons(s, i, j) > 1 THEN 0 ELSE j
nsname(s, i) == nsnameOf(s, i, xmlName(s, i))

\* The character reference whose digits start at i.
xmlDigit(c, base) == IsDigit(c) \/ (base = 16 /\ c \in HexDigits)
xmlDigitsEnd(s, i, base) ==
    IF \E j \in i..Len(s) : ~xmlDigit(s[j], base)
    THEN CHOOSE j \in i..Len(s) :
            ~xmlDigit(s[j], base) /\ \A k \in i..(j - 1) : xmlDigit(s[k], base)
    ELSE Len(s) + 1
RECURSIVE xmlUint(_, _)
xmlUint(str, base) ==
    IF str = <<>> THEN 0
    ELSE base * xmlUint(SubSeq(str, 1, Len(str) - 1), base)
         + ParseHex(ToLower(str[Len(str)]))
charRefOf(digits, base) ==
    /\ digits # <<>>
    /\ Len(TrimZeros(digits)) <= 7
    /\ isInRuneRange(xmlUint(TrimZeros(digits), base))
charRefAt(s, i, j, base) ==
    IF j <= Len(s) /\ s[j] = ";" /\ charRefOf(SubSeq(s, i, j - 1), base)
    THEN j + 1 ELSE 0
charRef(s, i, base) == charRefAt(s, i, xmlDigitsEnd(s, i, base), base)
\* The reference after the & at i - 1: the place after its semicolon.
reference(s, i) ==
    IF i > Len(s) THEN 0
    ELSE IF s[i] = "#"
    THEN IF i + 1 <= Len(s) /\ s[i + 1] = "x"
         THEN charRef(s, i + 2, 16) ELSE charRef(s, i + 1, 10)
    ELSE IF \E e \in entity : hasAt(s, i, e \o <<";">>)
    THEN i + Len(CHOOSE e \in entity : hasAt(s, i, e \o <<";">>)) + 1
    ELSE 0

\* d.text from the byte at i: the place after the text, which is the place
\* of the < that ends character data, the place after the closing quote or
\* the place after the ]]> of a CDATA section. quote is Nil outside a quoted
\* string; b0 and b1 are the two bytes read last.
RECURSIVE xmlText(_, _, _, _, _, _)
xmlTextRef(s, e, quote, cdata) ==
    IF e = 0 THEN 0 ELSE xmlText(s, e, quote, cdata, Nil, Nil)
xmlText(s, i, quote, cdata, b0, b1) ==
    IF i > Len(s) THEN (IF cdata THEN 0 ELSE i)
    ELSE IF b0 = "]" /\ b1 = "]" /\ s[i] = ">"
    THEN (IF cdata THEN i + 1 ELSE 0)
    ELSE IF s[i] = "<" /\ ~cdata THEN (IF quote # Nil THEN 0 ELSE i)
    ELSE IF quote # Nil /\ s[i] = quote THEN i + 1
    ELSE IF s[i] = "&" /\ ~cdata
    THEN xmlTextRef(s, reference(s, i + 1), quote, cdata)
    ELSE IF ~isInCharacterRange(s[i]) THEN 0
    ELSE xmlText(s, i + 1, quote, cdata, b1, s[i])

\* strings.Index, counted from 1; 0 when substr is not in s.
Index(s, substr) ==
    IF \E i \in 1..(Len(s) + 1) : hasAt(s, i, substr)
    THEN CHOOSE i \in 1..(Len(s) + 1) :
            hasAt(s, i, substr) /\ \A j \in 1..(i - 1) : ~hasAt(s, j, substr)
    ELSE 0
IndexFrom(s, i, substr) ==
    IF \E j \in i..(Len(s) + 1) : hasAt(s, j, substr)
    THEN CHOOSE j \in i..(Len(s) + 1) :
            hasAt(s, j, substr) /\ \A k \in i..(j - 1) : ~hasAt(s, k, substr)
    ELSE 0
\* procInst: the value of param="..." in the text of <?xml ...?>. The
\* releases differ: with scan the search moves on to the next param= when
\* no quote follows one, without it only the first param= counts.
RECURSIVE procInst(_, _, _, _)
procInstValue(s, i, j) == IF j = 0 THEN <<>> ELSE SubSeq(s, i, j - 1)
procInstAt(param, s, k, scan) ==
    IF k = 0 \/ k + Len(param) > Len(s) THEN <<>>
    ELSE IF s[k + Len(param)] \in {"'", "\""}
    THEN procInstValue(s, k + Len(param) + 1,
                       IndexFrom(s, k + Len(param) + 1, <<s[k + Len(param)]>>))
    ELSE IF scan THEN procInst(param, s, k + Len(param) + 1, scan)
    ELSE <<>>
procInst(param, s, i, scan) ==
    IF i > Len(s) THEN <<>>
    ELSE procInstAt(param, s, IndexFrom(s, i, param), scan)
xmlDeclOf(ver, enc) ==
    /\ ver \in {<<>>, <<"1", ".", "0">>}
    /\ enc = <<>> \/ EqualFold(enc, <<"u", "t", "f", "-", "8">>)
xmlDecl(content, scan) ==
    xmlDeclOf(procInst(<<"v", "e", "r", "s", "i", "o", "n", "=">>, content, 1,
                       scan),
              procInst(<<"e", "n", "c", "o", "d", "i", "n", "g", "=">>,
                       content, 1, scan))

\* The tokens of rawToken: kind is the token's type, EOF or error; next is
\* the place of the byte after the token; name the element's name; empty
\* says the start element closed itself (d.needClose).
XMLToken(kind, next, name, empty) ==
    [kind |-> kind, next |-> next, name |-> name, empty |-> empty]
xmlSyntaxError == XMLToken("error", 0, <<>>, FALSE)
xmlOther(kind, next) ==
    IF next = 0 THEN xmlSyntaxError ELSE XMLToken(kind, next, <<>>, FALSE)

\* </ at i - 2.
endElementOf(s, i, j, k) ==
    IF j = 0 \/ k > Len(s) \/ s[k] # ">" THEN xmlSyntaxError
    ELSE XMLToken("EndElement", k + 1, SubSeq(s, i, j - 1), FALSE)
endElementAt(s, i, j) ==
    endElementOf(s, i, j, xmlSpace(s, IF j = 0 THEN 1 ELSE j))
endElement(s, i) == endElementAt(s, i, nsname(s, i))

\* <? at i - 2.
procInstEnd(s, target, from, k, scan) ==
    IF k = 0 THEN xmlSyntaxError
    ELSE IF target = <<"x", "m", "l">> /\ ~xmlDecl(SubSeq(s, from, k - 1), scan)
    THEN xmlSyntaxError
    ELSE XMLToken("ProcInst", k + 2, <<>>, FALSE)
procInstData(s, target, from, scan) ==
    procInstEnd(s, target, from, IndexFrom(s, from, <<"?", ">">>), scan)
procInstOf(s, i, j, scan) ==
    IF j = 0 THEN xmlSyntaxError
    ELSE procInstData(s, SubSeq(s, i, j - 1), xmlSpace(s, j), scan)
procInstToken(s, i, scan) == procInstOf(s, i, xmlName(s, i), scan)

\* <!-- at i - 4: the first -- must be the one of -->.
commentOf(s, k) ==
    IF k = 0 \/ ~hasAt(s, k, <<"-", "-", ">">>) THEN xmlSyntaxError
    ELSE XMLToken("Comment", k + 3, <<>>, FALSE)
comment(s, i) == commentOf(s, IndexFrom(s, i, <<"-", "-">>))

\* A directive <!...> from the byte at i: quoted angle brackets do not count
\* for nesting, and a comment inside is passed over.
RECURSIVE directive(_, _, _, _)
RECURSIVE HandleB(_, _, _, _)
directiveComment(s, k, depth) ==
    IF k = 0 THEN 0 ELSE directive(s, k + 3, Nil, depth)
directiveOpen(s, i, depth) ==
    IF i + 1 > Len(s) THEN 0
    ELSE IF s[i + 1] # "!" THEN HandleB(s, i + 1, Nil, depth + 1)
    ELSE IF i + 2 > Len(s) THEN 0
    ELSE IF s[i + 2] # "-" THEN HandleB(s, i + 2, Nil, depth + 1)
    ELSE IF i + 3 > Len(s) THEN 0
    ELSE IF s[i + 3] # "-" THEN HandleB(s, i + 3, Nil, depth + 1)
    ELSE directiveComment(s, IndexFrom(s, i + 4, <<"-", "-", ">">>), depth)
HandleB(s, i, inquote, depth) ==
    IF s[i] = inquote THEN directive(s, i + 1, Nil, depth)
    ELSE IF inquote # Nil THEN directive(s, i + 1, inquote, depth)
    ELSE IF s[i] \in {"'", "\""} THEN directive(s, i + 1, s[i], depth)
    ELSE IF s[i] = ">" THEN directive(s, i + 1, inquote, depth - 1)
    ELSE IF s[i] = "<" THEN directiveOpen(s, i, depth)
    ELSE directive(s, i + 1, inquote, depth)
directive(s, i, inquote, depth) ==
    IF i > Len(s) THEN 0
    ELSE IF inquote = Nil /\ s[i] = ">" /\ depth = 0 THEN i + 1
    ELSE HandleB(s, i, inquote, depth)

\* <! at i - 2.
bang(s, i) ==
    IF i > Len(s) THEN xmlSyntaxError
    ELSE IF s[i] = "-"
    THEN IF i + 1 <= Len(s) /\ s[i + 1] = "-" THEN comment(s, i + 2)
         ELSE xmlSyntaxError
    ELSE IF s[i] = "["
    THEN IF hasAt(s, i + 1, <<"C", "D", "A", "T", "A", "[">>)
         THEN xmlOther("CharData", xmlText(s, i + 7, Nil, TRUE, Nil, Nil))
         ELSE xmlSyntaxError
    ELSE xmlOther("Directive", directive(s, i + 1, Nil, 0))

\* The attributes of a start element, from the byte at i, up to its > or />.
RECURSIVE attrs(_, _, _)
attrNext(s, name, e) == IF e = 0 THEN xmlSyntaxError ELSE attrs(s, name, e)
attrval(s, name, i) ==
    IF i > Len(s) \/ s[i] \notin {"'", "\""} THEN xmlSyntaxError
    ELSE attrNext(s, name, xmlText(s, i + 1, s[i], FALSE, Nil, Nil))
attrEq(s, name, i) ==
    IF i > Len(s) \/ s[i] # "=" THEN xmlSyntaxError
    ELSE attrval(s, name, xmlSpace(s, i + 1))
attrName(s, name, j) ==
    IF j = 0 THEN xmlSyntaxError ELSE attrEq(s, name, xmlSpace(s, j))
attrAt(s, name, i) ==
    IF i > Len(s) THEN xmlSyntaxError
    ELSE IF s[i] = "/"
    THEN IF i + 1 <= Len(s) /\ s[i + 1] = ">"
         THEN XMLToken("StartElement", i + 2, name, TRUE)
         ELSE xmlSyntaxError
    ELSE IF s[i] = ">" THEN XMLToken("StartElement", i + 1, name, FALSE)
    ELSE attrName(s, name, nsname(s, i))
attrs(s, name, i) == attrAt(s, name, xmlSpace(s, i))
startElementOf(s, i, j) ==
    IF j = 0 THEN xmlSyntaxError ELSE attrs(s, SubSeq(s, i, j - 1), j)
startElement(s, i) == startElementOf(s, i, nsname(s, i))

rawToken(s, i, scan) ==
    IF i > Len(s) THEN XMLToken("EOF", i, <<>>, FALSE)
    ELSE IF s[i] # "<"
    THEN xmlOther("CharData", xmlText(s, i, Nil, FALSE, Nil, Nil))
    ELSE IF i + 1 > Len(s) THEN xmlSyntaxError
    ELSE CASE s[i + 1] = "/" -> endElement(s, i + 2)
           [] s[i + 1] = "?" -> procInstToken(s, i + 2, scan)
           [] s[i + 1] = "!" -> bang(s, i + 2)
           [] OTHER -> startElement(s, i + 1)

\* XMLValidator.Validate (validators.go 649-673): the loop over
\* decoder.Token from the byte at i. stk is the stack of the open elements
\* (pushElement, popElement); the end of the input with an element open is
\* the syntax error "unexpected EOF". A start element that closed itself is
\* pushed and popped again by the end element rawToken hands out next.
RECURSIVE xmlTokens(_, _, _, _, _)
popElement(s, t, stk, hasElement, scan) ==
    IF stk = <<>> \/ stk[Len(stk)] # t.name THEN "XML parsing error: %w"
    ELSE xmlTokens(s, t.next, SubSeq(stk, 1, Len(stk) - 1), hasElement, scan)
Token(s, t, stk, hasElement, scan) ==
    CASE t.kind = "error" -> "XML parsing error: %w"
      [] t.kind = "EOF" ->
            IF stk # <<>> THEN "XML parsing error: %w"
            ELSE IF ~hasElement
            THEN "XML document must contain at least one element"
            ELSE Nil
      [] t.kind = "StartElement" ->
            xmlTokens(s, t.next, IF t.empty THEN stk ELSE Append(stk, t.name),
                      TRUE, scan)
      [] t.kind = "EndElement" -> popElement(s, t, stk, hasElement, scan)
      [] OTHER -> xmlTokens(s, t.next, stk, hasElement, scan)
xmlTokens(s, i, stk, hasElement, scan) ==
    Token(s, rawToken(s, i, scan), stk, hasElement, scan)
XMLValidateOf(err) == Res(err = Nil, err)
XMLValidate(cfg, val) == XMLValidateOf(xmlTokens(val, 1, <<>>, FALSE, cfg.scan))

\* The built-in validators: the directives under their tag names, the two
\* generic validators under their type names.
GenericKinds == {"CmpRangeValidator", "NonZeroValidator"}
BuiltinKinds ==
    {"rangeint", "rangefloat", "posint", "posfloat", "negint", "negfloat",
     "url", "email", "!empty", "nonempty", "min", "max", "len", "regex",
     "alphanum", "mac", "ip", "ipv4", "ipv6", "xml", "json", "minint",
     "minfloat", "maxint", "maxfloat", "!zeroint", "nonzeroint",
     "!zerofloat", "nonzerofloat", "!zerotime", "nonzerotime", "beforetime",
     "aftertime", "betweentime", "posduration", "!zeroduration",
     "nonzeroduration", "!zeroip", "nonzeroip", "iprange", "!zerourl",
     "nonzerourl", "oneoffloat", "oneof", "oneofint", "prefix", "suffix",
     "contains", "uuid", "hostname", "cidr", "base64", "hex", "time"}
    \cup GenericKinds

\* v.Validate(val) of the validator named kind with the fields cfg. An alias
\* validator embeds the validator it renames and has its Validate.
BuiltinValidate(kind, cfg, val) ==
    CASE kind = "rangeint" -> IntRangeValidate(cfg, val)
      [] kind = "posint"   -> NonNegativeIntValidate(val)
      [] kind = "negint"   -> NonPositiveIntValidate(val)
      [] kind \in {"!zeroint", "nonzeroint"} -> NonZeroIntValidate(val)
      [] kind = "oneofint" -> OneOfIntValidate(cfg, val)
      [] kind \in {"!empty", "nonempty"} -> NonEmptyStringValidate(val)
      [] kind = "min"      -> MinLengthValidate(cfg, val)
      [] kind = "max"      -> MaxLengthValidate(cfg, val)
      [] kind = "len"      -> LengthRangeValidate(cfg, val)
      [] kind = "url"      -> UrlValidate(cfg, val)
      [] kind = "uuid"     -> UUIDValidate(cfg, val)
      [] kind = "iprange"  -> IPRangeValidate(cfg, val)
      [] kind = "rangefloat" -> Float64RangeValidate(cfg, val)
      [] kind = "betweentime" -> TimeBetweenValidate(cfg, val)
      [] kind = "CmpRangeValidator" -> CmpRangeValidate(cfg, val)
      [] kind = "NonZeroValidator" -> validateNonZero(val, 0)
      [] kind = "posfloat" -> NonNegativeFloat64Validate(val)
      [] kind = "negfloat" -> NonPositiveFloat64Validate(val)
      [] kind = "email"    -> EmailValidate(cfg, val)
      [] kind = "regex"    -> RegexValidate(cfg, val)
      [] kind = "alphanum" -> AlphaNumericValidate(val)
      [] kind = "mac"      -> MACAddressValidate(val)
      [] kind = "ip"       -> IpValidate(cfg, val)
      [] kind = "ipv4"     -> IPv4Validate(cfg, val)
      [] kind = "ipv6"     -> IPv6Validate(cfg, val)
      [] kind = "xml"      -> XMLValidate(cfg, val)
      [] kind = "json"     -> JSONValidate(val)
      [] kind = "minint"   -> MinIntValidate(cfg, val)
      [] kind = "minfloat" -> MinFloat64Validate(cfg, val)
      [] kind = "maxint"   -> MaxIntValidate(cfg, val)
      [] kind = "maxfloat" -> MaxFloat64Validate(cfg, val)
      [] kind \in {"!zerofloat", "nonzerofloat"} ->
            NonZeroFloat64Validate(cfg, val)
      [] kind \in {"!zerotime", "nonzerotime"} -> NonZeroTimeValidate(val)
      [] kind = "beforetime" -> TimeBeforeValidate(cfg, val)
      [] kind = "aftertime" -> TimeAfterValidate(cfg, val)
      [] kind = "posduration" -> PositiveDurationValidate(val)
      [] kind \in {"!zeroduration", "nonzeroduration"} ->
            NonZeroDurationValidate(val)
      [] kind \in {"!zeroip", "nonzeroip"} -> NonZeroIPValidate(val)
      [] kind \in {"!zerourl", "nonzerourl"} -> NonZeroURLValidate(val)
      [] kind = "oneoffloat" -> OneOfFloat64Validate(cfg, val)
      [] kind = "oneof"    -> OneOfStringValidate(cfg, val)
      [] kind = "prefix"   -> PrefixValidate(cfg, val)
      [] kind = "suffix"   -> SuffixValidate(cfg, val)
      [] kind = "contains" -> ContainsValidate(cfg, val)
      [] kind = "hostname" -> HostnameValidate(val)
      [] kind = "cidr"     -> IPCIDRValidate(cfg, val)
      [] kind = "base64"   -> Base64Validate(val)
      [] kind = "hex"      -> HexValidate(val)
      [] kind = "time"     -> TimeValidate(cfg, val)

\* func (v *IntRangeValidator) Handle(val int) (int, error), and the same
\* two lines on every other directive:  _, err := v.Validate(val); return val, err
HandleOf(val, res) == [val |-> val, err |-> res.err]
Handle(kind, cfg, val) == HandleOf(val, BuiltinValidate(kind, cfg, val))

BuiltinValidateCall ==
    /\ pvKind \in BuiltinKinds /\ pvOut = Pending
    /\ pvOut' = BuiltinValidate(pvKind, pvCfg, pvIn)
    /\ UNCHANGED <<pvKind, pvCfg, pvIn, hdOut, vvVars, cvVars, yVars>>

\* The generic validators are no directives: they have no Handle.
BuiltinHandleCall ==
    /\ pvKind \in BuiltinKinds \ GenericKinds /\ hdOut = HandlePending
    /\ hdOut' = Handle(pvKind, pvCfg, pvIn)
    /\ UNCHANGED <<pvVars, vvVars, cvVars, yVars>>

NoFields == [none |-> 0]
Sizes == (0 - 1) .. MaxVal
Texts == {<<>>, Str1("a"), Str3("a", "a", "a")}
UrlTexts == {<<>>, Str1("a"), Str1("/"), Str1(":"), Str3("a", ":", "a"),
             Str3("/", "/", "a"), Str3("h", "1", ":"), Str3("1", "h", ":"),
             Str3("a", ":", "/") \o Str3("/", "a", ":"),
             Str3("a", ":", "/") \o Str3("/", "a", ":") \o Str1("8"),
             Str3("a", ":", "/") \o Str3("/", "a", ":") \o Str1("a"),
             Str3("a", ":", "/") \o Str3("/", ":", "1") \o Str3("/", "a", ":"),
             Str3("h", "t", "t") \o Str3("p", "s", ":") \o Str3("/", "/", "w")
                 \o Str3("w", "w", ".") \o Str3("e", "x", "a") \o Str3("m", "p", "l")
                 \o Str3("e", ".", "c") \o Str1("o") \o Str1("m"),
             Str3("f", "t", "p") \o Str3(":", "/", "/") \o Str3("e", "x", "a")
                 \o Str3("m", "p", "l") \o Str3("e", ".", "c") \o Str1("o")
                 \o Str1("m"),
             Str3("A", ".", "z") \o Str3(":", "/", "a"), Str3(".", "a", ":"),
             Str1("*"),
             <<"h", "t", "t", "p", ":", "/", "/", "u", ":", "p", "@", "h", "/">>,
             <<"h", "t", "t", "p", ":", "/", "/", "h", ":", "8", "?", "x">>,
             <<"h", "t", "t", "p", ":", "/", "/", "a", " ", "b", "/">>,
             <<"h", "t", "t", "p", ":", "/", "/", "h", "/", "%", "z", "z">>,
             <<"h", "t", "t", "p", ":", "/", "/", "[", ":", ":", "1", "]", ":", "8", "/">>,
             <<"h", "t", "t", "p", ":", "/", "/", "[", "x", "]", "/">>,
             <<"h", "t", "t", "p", ":", "/", "/", ":", ":", "1", "/">>,
             <<"h", "t", "t", "p", ":", "/", "/", "h", "\n">>,
             <<"h", "t", "t", "p", ":", "/", "/", "[", ":", ":", "1", "%", "2", "5", "e", "]">>,
             <<"h", "t", "t", "p", ":", "/", "/", "u", "^", "@", "h", "/">>,
             <<"h", "t", "t", "p", ":", "/", "/", "%", "e", "9", "/">>,
             <<"h", "t", "t", "p", ":", "/", "/", "%", "4", "1", "/">>}

\* Addresses: plain, with a name, with a domain literal, a list, a group,
\* an encoded word.
EmailTexts ==
    {<<"a", "@", "b", ".", "c">>,
     <<"N", " ", "<", "a", "@", "b", ".", "c", ">">>,
     <<"a">>,
     <<>>,
     <<"a", "@", "[", ":", ":", "1", "]">>,
     <<"a", "@", "[", "x", "]">>,
     <<"a", ";", "b", " ", "<", "a", "@", "b", ".", "c", ">">>,
     <<"\"", "a", " ", "b", "\"", "@", "c", ".", "d">>,
     <<"a", "@", "b", ".", "c", ",", " ", "d", "@", "e", ".", "f">>,
     <<"g", ":", " ", "a", "@", "b", ".", "c", ";">>,
     <<"=", "?", "x", "?", "q", "?", "a", "?", "=", " ", "<", "a", "@", "b",
       ".", "c", ">">>}
RegexTexts ==
    {<<>>,
     <<"1", "2", "3">>,
     <<"1", "2", "a">>,
     <<"c">>,
     <<"a", "b", "a", "b", "c">>,
     <<"a", "b", "a", "b">>}
AlphaNumericTexts ==
    {<<>>,
     <<"a", "b", "c", "1", "2", "3">>,
     <<"a", "b", "c", " ", "1">>,
     <<"a", "-", "b">>}
MACTexts ==
    {<<"0", "0", ":", "0", "0", ":", "5", "e", ":", "0", "0", ":", "5", "3",
       ":", "0", "1">>,
     <<"0", "0", "-", "0", "0", "-", "5", "e", "-", "0", "0", "-", "5", "3",
       "-", "0", "1">>,
     <<"0", "0", "0", "0", ".", "5", "e", "0", "0", ".", "5", "3", "0",
       "1">>,
     <<"0", "0", ":", "0", "0", ":", "5", "e", ":", "0", "0", ":", "5",
       "3">>,
     <<"z", "z", ":", "0", "0", ":", "5", "e", ":", "0", "0", ":", "5", "3",
       ":", "0", "1">>,
     <<>>}
XMLTexts ==
    {<<"<", "a", "/", ">">>,
     <<"<", "a", ">", "x", "<", "/", "a", ">">>,
     <<"<", "a", " ", "x", "=", "\"", "1", "\"", ">", "&", "l", "t", ";",
       "<", "/", "a", ">">>,
     <<"<", "a", ">">>,
     <<>>,
     <<"t", "e", "x", "t">>,
     <<"<", "a", ">", "<", "/", "b", ">">>,
     <<"<", "a", " ", "x", "=", "1", "/", ">">>,
     <<"<", "a", ">", "&", "x", ";", "<", "/", "a", ">">>,
     <<"<", "?", "x", "m", "l", " ", "v", "e", "r", "s", "i", "o", "n", "=",
       "\"", "1", ".", "0", "\"", "?", ">", "<", "a", "/", ">">>,
     <<"<", "?", "x", "m", "l", " ", "v", "e", "r", "s", "i", "o", "n", "=",
       "\"", "1", ".", "1", "\"", "?", ">", "<", "a", "/", ">">>,
     <<"<", "?", "x", "m", "l", " ", "v", "e", "r", "s", "i", "o", "n", "=",
       "1", " ", "v", "e", "r", "s", "i", "o", "n", "=", "\"", "2", "\"",
       "?", ">", "<", "a", "/", ">">>,
     <<"<", "!", "-", "-", " ", "c", " ", "-", "-", ">", "<", "a", "/",
       ">">>,
     <<"<", "!", "-", "-", " ", "c", " ", "-", "-", " ", "d", " ", "-", "-",
       ">", "<", "a", "/", ">">>,
     <<"<", "!", "[", "C", "D", "A", "T", "A", "[", "x", "]", "]", ">", "<",
       "a", "/", ">">>,
     <<"<", "!", "D", "O", "C", "T", "Y", "P", "E", " ", "a", " ", "[", "<",
       "!", "E", "N", "T", "I", "T", "Y", " ", "x", " ", "\"", "y", "\"",
       ">", "]", ">", "<", "a", "/", ">">>,
     <<"<", "a", ":", "b", ">", "<", "c", "/", ">", "<", "/", "a", ":", "b",
       ">">>,
     <<"<", "a", ">", "]", "]", ">", "<", "/", "a", ">">>}
JSONTexts ==
    {<<"{", "}">>,
     <<"{", "\"", "a", "\"", ":", "[", "1", ",", "2", ".", "5", "e", "3",
       ",", "t", "r", "u", "e", ",", "n", "u", "l", "l", "]", "}">>,
     <<" ", "1", " ">>,
     <<"\"", "a", "\"">>,
     <<>>,
     <<"{">>,
     <<"[", "1", ",", "]">>,
     <<"0", "1">>,
     <<"{", "\"", "a", "\"", " ", "1", "}">>,
     <<"\"", "\\", "u", "0", "0", "e", "9", "\"">>,
     <<"\"", "\\", "x", "\"">>}
HostnameTexts ==
    {<<"l", "o", "c", "a", "l", "h", "o", "s", "t">>,
     <<"e", "x", "a", "m", "p", "l", "e", ".", "c", "o", "m">>,
     <<"a">>,
     <<>>,
     <<"-", "a", ".", "c", "o", "m">>,
     <<"a", ".", ".", "b">>,
     <<"e", "x", "a", "_", "m", "p", "l", "e", ".", "c", "o", "m">>}
CIDRTexts ==
    {<<"1", ".", "2", ".", "3", ".", "4", "/", "8">>,
     <<"1", ".", "2", ".", "3", ".", "4", "/", "3", "3">>,
     <<":", ":", "1", "/", "1", "2", "8">>,
     <<":", ":", "1", "/", "1", "2", "9">>,
     <<"1", ".", "2", ".", "3", ".", "4">>,
     <<"1", ".", "2", ".", "3", ".", "4", "/">>,
     <<"x", "/", "8">>,
     <<>>}
Base64Texts ==
    {<<>>,
     <<"Y", "Q", "=", "=">>,
     <<"Y", "Q">>,
     <<"Y", "W", "J", "j">>,
     <<"Y">>,
     <<"Y", "Q", "=">>,
     <<"Y", " ", "Q", "=">>,
     <<"Y", "W", "\n", "J", "j">>,
     <<"Y", "Q", "=", "=", "Y", "Q", "=", "=">>}
HexTexts ==
    {<<>>,
     <<"0", "a">>,
     <<"0", "A">>,
     <<"0", "x", "0", "a">>,
     <<"0", "X", "0", "a">>,
     <<"0">>,
     <<"0", "g">>,
     <<"0", "x">>}
TimeFormats ==
    {<<>>,
     <<"2", "0", "0", "6", "-", "0", "1", "-", "0", "2">>,
     <<" ", "1", "5", ":", "0", "4", " ">>,
     <<"J", "a", "n", " ", "_", "2", " ", "2", "0", "0", "6">>,
     <<"x">>}
LayoutTimeTexts ==
    {<<"2", "0", "2", "4", "-", "0", "2", "-", "2", "9", "T", "1", "0", ":",
       "0", "0", ":", "0", "0", "Z">>,
     <<"2", "0", "2", "3", "-", "0", "2", "-", "2", "9", "T", "1", "0", ":",
       "0", "0", ":", "0", "0", "Z">>,
     <<"2", "0", "2", "4", "-", "0", "2", "-", "2", "9", "T", "1", "0", ":",
       "0", "0", ":", "0", "0", ".", "5", "+", "0", "1", ":", "0", "0">>,
     <<"2", "0", "2", "4", "-", "0", "2", "-", "2", "9">>,
     <<"2", "0", "2", "3", "-", "0", "2", "-", "2", "9">>,
     <<"1", "0", ":", "3", "0">>,
     <<"2", "5", ":", "0", "0">>,
     <<"F", "e", "b", " ", " ", "3", " ", "2", "0", "2", "4">>,
     <<"F", "e", "b", " ", "3", "0", " ", "2", "0", "2", "4">>,
     <<"x">>,
     <<>>}
PartTexts ==
    {<<>>,
     <<"a">>,
     <<"a", "b">>,
     <<"b", "a">>,
     <<"a", "b", "a">>}

\* The builds of net/mail, encoding/xml and net the addresses, documents and
\* IP texts are read by.
MailBuilds == [specials : BOOLEAN, literal : BOOLEAN, longGroups : BOOLEAN]
\* ^\d+$ and ^(ab)*c?$ as regexp.Compile hands them out
DigitsPattern ==
    OpNary("OpConcat",
           <<OpEmpty("OpBeginText"),
             OpUnary("OpPlus",
                     OpCharClass(<<"0", "1", "2", "3", "4", "5", "6", "7", "8",
                                   "9">>, FALSE)),
             OpEmpty("OpEndText")>>)
GroupPattern ==
    OpNary("OpConcat",
           <<OpEmpty("OpBeginText"),
             OpUnary("OpStar", OpUnary("OpCapture", OpLiteral(<<"a", "b">>))),
             OpUnary("OpQuest", OpLiteral(<<"c">>)),
             OpEmpty("OpEndText")>>)
RegexPatterns == {NilRegexp, DigitsPattern, GroupPattern}
IPValues == {NilIP, Zeros(4), Zeros(16), v4InV6Prefix \o Zeros(4),
             <<1, 0, 0, 1>>, Zeros(15) \o <<1>>}
URLValues == {ZeroURL, [ZeroURL EXCEPT !.Host = <<"h">>],
              [ZeroURL EXCEPT !.ForceQuery = TRUE]}
Instants == {Instant(n) : n \in 0..(MaxVal + 1)}

InitBuiltin ==
    /\ \/ /\ pvKind = "rangeint"
          /\ pvCfg \in [Min : Values, Max : Values]
          /\ pvIn \in Candidates
       \/ /\ pvKind \in {"posint", "negint", "!zeroint", "nonzeroint",
                        "posduration", "!zeroduration", "nonzeroduration",
                        "NonZeroValidator"}
          /\ pvCfg = NoFields
          /\ pvIn \in Candidates
       \/ /\ pvKind = "minint"
          /\ pvCfg \in [Min : Values]
          /\ pvIn \in Candidates
       \/ /\ pvKind = "maxint"
          /\ pvCfg \in [Max : Values]
          /\ pvIn \in Candidates
       \/ /\ pvKind = "oneofint"
          /\ pvCfg \in [Values : SeqsUpTo({0, 1}, 2)]
          /\ pvIn \in Candidates
       \/ /\ pvKind \in {"!empty", "nonempty"}
          /\ pvCfg = NoFields
          /\ pvIn \in Texts
       \/ /\ pvKind \in {"min", "max"}
          /\ pvCfg \in [Size : Sizes]
          /\ pvIn \in Texts
       \/ /\ pvKind = "len"
          /\ pvCfg \in [Min : Sizes, Max : Sizes]
          /\ pvIn \in Texts
       \/ /\ pvKind = "url"
          /\ pvCfg \in [build : Builds]
          /\ pvIn \in UrlTexts
       \/ /\ pvKind = "uuid"
          /\ pvCfg \in [Version : {0, 4, 9}, conv : {ConvPending}]
          /\ pvIn \in {MkUUID("5", "4", "a"), MkUUID("5", "1", "a"),
                       MkUUID("5", "4", "c"), <<>>}
       \/ /\ pvKind = "iprange"
          /\ pvCfg \in [Start : {NilIP, <<1, 0, 0, 0>>},
                        End : {<<1, 0, 0, 255>>, <<0, 0, 0, 1>>},
                        conv : {[Start |-> ConvPending, End |-> ConvPending]}]
          /\ pvIn \in {NilIP, <<1, 0, 0, 1>>, <<255, 0, 0, 0>>,
                       <<32>> \o Zeros(14) \o <<1>>}
       \/ /\ pvKind \in {"rangefloat", "CmpRangeValidator"}
          /\ pvCfg \in [Min : FloatValues, Max : FloatValues]
          /\ pvIn \in FloatCandidates
       \/ /\ pvKind = "minfloat"
          /\ pvCfg \in [Min : FloatValues]
          /\ pvIn \in FloatCandidates
       \/ /\ pvKind = "maxfloat"
          /\ pvCfg \in [Max : FloatValues]
          /\ pvIn \in FloatCandidates
       \/ /\ pvKind \in {"posfloat", "negfloat"}
          /\ pvCfg = NoFields
          /\ pvIn \in FloatCandidates
       \/ /\ pvKind \in {"!zerofloat", "nonzerofloat"}
          /\ pvCfg \in [negZero : BOOLEAN]
          /\ pvIn \in FloatCandidates
       \/ /\ pvKind = "oneoffloat"
          /\ pvCfg \in [Values : SeqsUpTo({FloatOf[0], FloatOf[1], NaN}, 2)]
          /\ pvIn \in FloatCandidates
       \/ /\ pvKind = "oneof"
          /\ pvCfg \in [Values : SeqsUpTo({<<>>, Str1("a")}, 2)]
          /\ pvIn \in Texts
       \/ /\ pvKind \in {"prefix", "suffix", "contains"}
          /\ pvCfg \in [Value : {<<>>, Str1("a"), <<"a", "b">>}]
          /\ pvIn \in PartTexts
       \/ /\ pvKind \in {"!zerotime", "nonzerotime"}
          /\ pvCfg = NoFields
          /\ pvIn \in Instants
       \/ /\ pvKind = "beforetime"
          /\ pvCfg \in [Before : Instants]
          /\ pvIn \in Instants
       \/ /\ pvKind = "aftertime"
          /\ pvCfg \in [After : Instants]
          /\ pvIn \in Instants
       \/ /\ pvKind \in {"!zeroip", "nonzeroip"}
          /\ pvCfg = NoFields
          /\ pvIn \in IPValues
       \/ /\ pvKind \in {"!zerourl", "nonzerourl"}
          /\ pvCfg = NoFields
          /\ pvIn \in URLValues
       \/ /\ pvKind = "email"
          /\ pvCfg \in [build : MailBuilds]
          /\ pvIn \in EmailTexts
       \/ /\ pvKind = "regex"
          /\ pvCfg \in [Pattern : RegexPatterns]
          /\ pvIn \in RegexTexts
       \/ /\ pvKind = "alphanum"
          /\ pvCfg = NoFields
          /\ pvIn \in AlphaNumericTexts
       \/ /\ pvKind = "mac"
          /\ pvCfg = NoFields
          /\ pvIn \in MACTexts
       \/ /\ pvKind \in {"ip", "ipv4", "ipv6"}
          /\ pvCfg \in [longGroups : BOOLEAN]
          /\ pvIn \in IPTexts
       \/ /\ pvKind = "cidr"
          /\ pvCfg \in [longGroups : BOOLEAN]
          /\ pvIn \in CIDRTexts
       \/ /\ pvKind = "xml"
          /\ pvCfg \in [scan : BOOLEAN]
          /\ pvIn \in XMLTexts
       \/ /\ pvKind = "json"
          /\ pvCfg = NoFields
          /\ pvIn \in JSONTexts
       \/ /\ pvKind = "hostname"
          /\ pvCfg = NoFields
          /\ pvIn \in HostnameTexts
       \/ /\ pvKind = "base64"
          /\ pvCfg = NoFields
          /\ pvIn \in Base64Texts
       \/ /\ pvKind = "hex"
          /\ pvCfg = NoFields
          /\ pvIn \in HexTexts
       \/ /\ pvKind = "time"
          /\ pvCfg \in [Format : TimeFormats]
          /\ pvIn \in LayoutTimeTexts
       \/ /\ pvKind = "betweentime"
          /\ pvCfg \in [Start : {Instant(n) : n \in 0..MaxVal},
                        End : {Instant(n) : n \in 0..MaxVal},
                        conv : {[Start |-> ConvPending, End |-> ConvPending]}]
          /\ pvIn \in {Instant(n) : n \in 0..(MaxVal + 1)}
    /\ pvOut = Pending
    /\ hdOut = HandlePending
    /\ vvIdle /\ cvIdle /\ yIdle

NextBuiltin ==
    \/ UUIDConvertParam
    \/ IPRangeConvertParam
    \/ TimeBetweenConvertParam
    \/ BuiltinValidateCall
    \/ BuiltinHandleCall

SpecBuiltin == InitBuiltin /\ [][NextBuiltin]_vars

\* C11: a built-in validator's Validate returns a non-nil error exactly when
\* its verdict is false, and the directive's Handle returns the input value
\* unchanged with an error exactly when that verdict is false.
C11_ErrorIffRejected ==
    /\ pvOut # Pending => (pvOut.ok = (pvOut.err = Nil))
    /\ hdOut # HandlePending =>
          /\ hdOut.val = pvIn
          /\ (hdOut.err # Nil) = ~BuiltinValidate(pvKind, pvCfg, pvIn).ok
          /\ pvOut # Pending => /\ hdOut.err = pvOut.err
                                /\ (hdOut.err = Nil) = pvOut.ok

\* both calls made on a URL the parser accepts, with authority and port
C11_Witness ==
    /\ pvKind = "url" /\ Len(pvIn) = 7
    /\ pvOut = Res(TRUE, Nil)
    /\ hdOut = [val |-> pvIn, err |-> Nil]

----------------------------------------------------------------------------
(* Tag-based validation (tag.go): the package's "val" tag, ValidateStruct   *)
(* and RegisterDirective. The engine behind them, package tagex, is         *)
(* modelled from the specification's description of it.                     *)

tagKey == "val"

\* Name() of a directive, the directive being identified by its Go type
Name(d) ==
    CASE d = "IntRangeValidator"       -> "rangeint"
      [] d = "NonNegativeIntValidator" -> "posint"
      [] d = "NonPositiveIntValidator" -> "negint"
      [] d = "UrlValidator"            -> "url"
      [] d = "EmailValidator"          -> "email"
      [] d = "NonEmptyStringValidator" -> "!empty"
      [] d = "MinLengthValidator"      -> "min"
      [] d = "MaxLengthValidator"      -> "max"
      [] d = "LengthRangeValidator"    -> "len"
      [] d = "RegexValidator"          -> "regex"
      [] d = "AlphaNumericValidator"   -> "alphanum"
      [] d = "MACAddressValidator"     -> "mac"
      [] d = "IpValidator"             -> "ip"
      [] d = "IPv4Validator"           -> "ipv4"
      [] d = "IPv6Validator"           -> "ipv6"
      [] d = "XMLValidator"            -> "xml"
      [] d = "JSONValidator"           -> "json"
      [] d = "NonZeroIntValidator"     -> "!zeroint"
      [] d = "evenDirectiveTest"       -> "even"

\* tagex.RegisterDirective(&tag, d): d enters the tag's table
tagexRegisterDirective(table, d) == table \cup {d}

\* func init(): the table of the package's tag after initialisation
InitTable ==
    {"IntRangeValidator", "NonNegativeIntValidator", "NonPositiveIntValidator",
     "UrlValidator", "EmailValidator", "NonEmptyStringValidator",
     "MinLengthValidator", "MaxLengthValidator", "LengthRangeValidator",
     "RegexValidator", "AlphaNumericValidator", "MACAddressValidator",
     "IpValidator", "IPv4Validator", "IPv6Validator", "XMLValidator",
     "JSONValidator"}

\* a registration that reaches a copy of the tag, not the package's tag
RegisterDirectiveOnCopy(table, d) == table

\* func RegisterDirective[T any](d tagex.Directive[T])
RegisterDirective(table, d) == tagexRegisterDirective(table, d)

\* v.Validate(val) of the directives on int fields that have no parameter
IntDirectiveValidate(kind, val) ==
    CASE kind = "posint"   -> NonNegativeIntValidate(val)
      [] kind = "negint"   -> NonPositiveIntValidate(val)
      [] kind = "!zeroint" -> NonZeroIntValidate(val)

\* d.Handle(val) on an int field: the error it returns
DirectiveHandle(d, val) ==
    IF d = "evenDirectiveTest"
    THEN IF val % 2 # 0 THEN "value %d is not even" ELSE Nil
    ELSE HandleOf(val, IntDirectiveValidate(Name(d), val)).err

\* a tagex.Tag: the struct-tag key it scans for and its directive table
Tag(key, table) == [Key |-> key, table |-> table]

\* the directives of tag t registered under a name
Lookup(t, name) == {d \in t.table : Name(d) = name}

\* a tag text that names no directive passes for a field without a tag
ProcessTagSkipsUnknown(f, t) ==
    LET ds == Lookup(t, f.tags[t.Key]) IN
    IF ds = {} THEN NilErr
    ELSE LET e == DirectiveHandle(CHOOSE d \in ds : TRUE, f.val) IN
         IF e = Nil THEN NilErr ELSE Err("directive", e, f.path, t.Key)

\* One tag of one field: the directive named by the tag text is resolved in
\* the tag's table and handles the field's value.
ProcessTag(f, t) ==
    LET name == f.tags[t.Key]
        ds == Lookup(t, name)
    IN  IF ds = {} THEN Err("unknown directive", name, f.path, t.Key)
        ELSE LET e == DirectiveHandle(CHOOSE d \in ds : TRUE, f.val) IN
             IF e = Nil THEN NilErr ELSE Err("directive", e, f.path, t.Key)

\* the leaf fields of a record in declaration order, nested records
\* included, each with its path
RECURSIVE Flatten(_, _)
Flatten(items, prefix) ==
    IF items = <<>> THEN <<>>
    ELSE LET h == Head(items) IN
         (IF h.struct THEN Flatten(h.fields, Append(prefix, h.name))
          ELSE <<[path |-> Append(prefix, h.name), val |-> h.val,
                  tags |-> h.tags]>>)
         \o Flatten(Tail(items), prefix)

\* the scan: field by field, for each field tag by tag, until a failure
RECURSIVE ProcessFrom(_, _, _, _, _)
ProcessFrom(fields, tags, i, j, evals) ==
    IF i > Len(fields) THEN [out |-> [ok |-> TRUE, err |-> NilErr], evals |-> evals]
    ELSE IF j > Len(tags) THEN ProcessFrom(fields, tags, i + 1, 1, evals)
    ELSE IF fields[i].tags[tags[j].Key] = ""
    THEN ProcessFrom(fields, tags, i, j + 1, evals)
    ELSE LET e == ProcessTag(fields[i], tags[j])
             ev == Append(evals, <<fields[i].path, tags[j].Key>>)
         IN  IF e # NilErr THEN [out |-> [ok |-> FALSE, err |-> e], evals |-> ev]
             ELSE ProcessFrom(fields, tags, i, j + 1, ev)

\* tagex.ProcessStruct(data, tags...)
ProcessStruct(data, tags) == ProcessFrom(Flatten(data, <<>>), tags, 1, 1, <<>>)

\* the package's tag put before the caller's tags
ValidateStructValFirst(table, data, tags) ==
    ProcessStruct(data, <<Tag(tagKey, table)>> \o tags)

\* the caller's tags dropped
ValidateStructValOnly(table, data, tags) ==
    ProcessStruct(data, <<Tag(tagKey, table)>>)

\* func ValidateStruct(data interface{}, tags ...*tagex.Tag) (bool, error):
\* tags = append(tags, &tag); return tagex.ProcessStruct(data, tags...)
ValidateStruct(table, data, tags) ==
    ProcessStruct(data, Append(tags, Tag(tagKey, table)))

\* directives a caller registers: the test's "even" directive and a
\* validator of the package that init leaves out
Customs == {"evenDirectiveTest", "NonZeroIntValidator"}

RegisterDirectiveCall(d) ==
    /\ Lookup(Tag(tagKey, rgTable), Name(d)) = {}
    /\ rgTable' = RegisterDirective(rgTable, d)
    /\ rgRegistered' = rgRegistered \cup {d}
    /\ rgData' = <<>> /\ rgTags' = <<>>
    /\ rgOut' = StructPending /\ rgEvals' = <<>>
    /\ UNCHANGED <<vvVars, cvVars, pvVars, hdVars, lkVars, fbVars, fvVars>>

\* One call is recorded per state of the table: ValidateStruct leaves the
\* table as it is, so a later call meets the table the recorded one met.
ValidateStructCall(data, tags) ==
    /\ rgOut = StructPending
    /\ LET r == ValidateStruct(rgTable, data, tags) IN
        /\ rgOut' = r.out
        /\ rgEvals' = r.evals
    /\ rgData' = data
    /\ rgTags' = tags
    /\ UNCHANGED <<rgTable, rgRegistered, vvVars, cvVars, pvVars, hdVars, lkVars,
                   fbVars, fvVars>>

\* The records and caller tags of the runs.
Keys == {"a", "b", tagKey}
TagA == Tag("a", {"NonNegativeIntValidator", "evenDirectiveTest"})
TagB == Tag("b", {"NonPositiveIntValidator"})
TagLists == {<<>>, <<TagA>>, <<TagB>>, <<TagA, TagB>>, <<TagB, TagA>>}

Leaf(name, val, ta, tb, tv) ==
    [name |-> name, val |-> val, struct |-> FALSE, fields |-> <<>>,
     tags |-> [k \in Keys |-> IF k = "a" THEN ta ELSE IF k = "b" THEN tb ELSE tv]]
Struct(name, fields) ==
    [name |-> name, val |-> 0, struct |-> TRUE, fields |-> fields,
     tags |-> [k \in Keys |-> ""]]

FirstFields ==
    {Leaf("A", v, ta, tb, tv) :
        v \in {0 - 1, 0, 1, 2}, ta \in {"", "posint", "even"},
        tb \in {"", "negint"},
        tv \in {"", "posint", "!zeroint", "even", "foobar"}}
SecondFields ==
    {Leaf("B", 2, "", "", "negint"), Leaf("B", 2, "", "negint", "posint")}
Records ==
    {<<f>> : f \in FirstFields}
    \cup {<<f, g>> : f \in FirstFields, g \in SecondFields}
    \cup {<<Struct("Inner", <<f>>), g>> : f \in FirstFields, g \in SecondFields}

rgInit ==
    /\ rgTable = InitTable
    /\ rgRegistered = {}
    /\ rgData = <<>> /\ rgTags = <<>>
    /\ rgOut = StructPending /\ rgEvals = <<>>

InitRegistry ==
    rgInit /\ vvIdle /\ cvIdle /\ pvIdle /\ hdIdle /\ lkIdle /\ fbIdle /\ fvIdle

NextRegistry ==
    \/ \E d \in Customs : RegisterDirectiveCall(d)
    \/ \E data \in Records, tags \in TagLists : ValidateStructCall(data, tags)

SpecRegistry == InitRegistry /\ [][NextRegistry]_vars

\* What a finished call was asked: the leaf fields in declaration order and
\* the tags in processing order.
rgCalled == rgOut # StructPending
rgFields == Flatten(rgData, <<>>)
rgOrder == Append(rgTags, Tag(tagKey, rgTable))
\* the tagged (field, tag) positions, and those whose directive fails
rgTagged ==
    {p \in (1..Len(rgFields)) \X (1..Len(rgOrder)) :
        rgFields[p[1]].tags[rgOrder[p[2]].Key] # ""}
rgFailing ==
    {p \in rgTagged : ProcessTag(rgFields[p[1]], rgOrder[p[2]]) # NilErr}
\* scan order: fields in declaration order, for each field the tags in order
Before(p, q) == p[1] < q[1] \/ (p[1] = q[1] /\ p[2] < q[2])
rgFirstFailing == CHOOSE p \in rgFailing : \A q \in rgFailing : q = p \/ Before(p, q)
\* the positions the call has evaluated, as rgEvals names them
rgEvaluated ==
    {p \in rgTagged :
        \E n \in 1..Len(rgEvals) :
            rgEvals[n] = <<rgFields[p[1]].path, rgOrder[p[2]].Key>>}

\* C12: ValidateStruct returns (true, nil) exactly when every tagged field,
\* nested ones included, satisfies its directive under every processed tag;
\* otherwise it returns (false, err) with the error of the first failure in
\* scan order and has evaluated nothing after it; the verdict is true
\* exactly when the error is nil.
C12_AllOrFirstFailure ==
    rgCalled =>
        /\ rgOut.ok = (rgFailing = {})
        /\ rgOut.ok = (rgOut.err = NilErr)
        /\ rgOut.ok => rgEvaluated = rgTagged /\ Len(rgEvals) = Cardinality(rgTagged)
        /\ ~rgOut.ok =>
              /\ rgOut.err = ProcessTag(rgFields[rgFirstFailing[1]],
                                        rgOrder[rgFirstFailing[2]])
              /\ rgEvaluated = {p \in rgTagged :
                                  p = rgFirstFailing \/ Before(p, rgFirstFailing)}
              /\ Len(rgEvals) = Cardinality(rgEvaluated)

\* a call on a record with a nested record whose field fails under a
\* caller's tag only, a later field failing too
C12_Witness ==
    /\ rgCalled /\ ~rgOut.ok
    /\ Len(rgOut.err.path) = 2 /\ rgOut.err.key = "a"
    /\ Cardinality(rgFailing) = 2
    /\ \A p \in rgFailing : rgOrder[p[2]].Key # tagKey

\* the place of a tag key in the order the claim states: the caller's tags
\* as passed, then the package's "val" tag
rgKeyPos(k) == CHOOSE j \in 1..Len(rgOrder) : rgOrder[j].Key = k

\* C13: a call evaluates each field's tags in the order the caller passed
\* them with the "val" tag last, and when a field fails under two tags the
\* failure returned is the one under the tag that comes first in that order.
C13_CallerOrderThenVal ==
    rgCalled =>
        /\ \A m, n \in 1..Len(rgEvals) :
              (m < n /\ rgEvals[m][1] = rgEvals[n][1]) =>
                  rgKeyPos(rgEvals[m][2]) < rgKeyPos(rgEvals[n][2])
        /\ ~rgOut.ok =>
              \A p \in rgFailing :
                  rgFields[p[1]].path = rgOut.err.path =>
                      rgKeyPos(rgOut.err.key) <= p[2]

\* tags passed as b, a: a field failing under a, b and "val" alike, the
\* failure under b returned
C13_Witness ==
    /\ rgCalled /\ ~rgOut.ok
    /\ rgTags = <<TagB, TagA>>
    /\ rgOut.err.key = "b"
    /\ \E p, q \in rgFailing :
          /\ rgFields[p[1]].path = rgOut.err.path /\ rgOrder[p[2]].Key = "a"
          /\ rgFields[q[1]].path = rgOut.err.path /\ rgOrder[q[2]].Key = tagKey

\* the tag text at a position names no directive of the tag's table
rgUnknown(p) ==
    Lookup(rgOrder[p[2]], rgFields[p[1]].tags[rgOrder[p[2]].Key]) = {}

\* C14: an evaluated tag that names no directive of its table makes the call
\* return (false, err) with an unknown-directive error naming that directive
\* and the field, whatever the field's value; the error of a known directive
\* that rejected the value is of another class.
C14_UnknownDirective ==
    rgCalled =>
        /\ \A p \in rgEvaluated :
              rgUnknown(p) =>
                  rgOut = [ok |-> FALSE,
                           err |-> Err("unknown directive",
                                       rgFields[p[1]].tags[rgOrder[p[2]].Key],
                                       rgFields[p[1]].path, rgOrder[p[2]].Key)]
        /\ (~rgOut.ok /\ ~rgUnknown(rgFirstFailing)) =>
              /\ rgOut.err.class = "directive"
              /\ rgOut.err.detail # rgFields[rgFirstFailing[1]].tags[rgOut.err.key]

\* `val:"foobar"` on a field whose value the caller's directive accepted
C14_Witness ==
    /\ rgCalled /\ ~rgOut.ok
    /\ rgOut.err.class = "unknown directive" /\ rgOut.err.detail = "foobar"
    /\ Len(rgEvals) >= 2

\* the tag names of the README's table of built-in validators
ReadmeNames ==
    {"rangeint", "minint", "maxint", "posint", "negint", "!zeroint",
     "nonzeroint", "oneofint", "rangefloat", "minfloat", "maxfloat",
     "posfloat", "negfloat", "!zerofloat", "nonzerofloat", "oneoffloat",
     "url", "email", "!empty", "nonempty", "min", "max", "len", "regex",
     "prefix", "suffix", "contains", "oneof", "alphanum", "mac", "ip", "ipv4",
     "ipv6", "hostname", "cidr", "uuid", "base64", "hex", "xml", "json",
     "time", "!zerotime", "nonzerotime", "beforetime", "aftertime",
     "betweentime", "posduration", "!zeroduration", "nonzeroduration",
     "!zeroip", "nonzeroip", "iprange", "!zerourl", "nonzerourl"}

\* C15: every tag name of the README's table resolves in the "val" tag: no
\* call reports one of them as an unknown directive.
C15_ReadmeNamesResolve ==
    (rgCalled /\ rgOut.err.class = "unknown directive" /\ rgOut.err.key = tagKey)
        => rgOut.err.detail \notin ReadmeNames

\* C16: a directive passed to RegisterDirective is the one its name resolves
\* to in every later call: a field tagged with the name passes exactly when
\* the directive's Handle returns nil, fails with the directive's error
\* otherwise, and is never reported as an unknown directive.
C16_RegisteredResolves ==
    /\ \A d \in rgRegistered : Lookup(Tag(tagKey, rgTable), Name(d)) = {d}
    /\ rgCalled =>
          \A d \in rgRegistered : \A p \in rgEvaluated :
              (rgOrder[p[2]].Key = tagKey /\ rgFields[p[1]].tags[tagKey] = Name(d)) =>
                  LET e == DirectiveHandle(d, rgFields[p[1]].val)
                      here == /\ rgOut.err.path = rgFields[p[1]].path
                              /\ rgOut.err.key = tagKey
                  IN  /\ e = Nil => (rgOut.ok \/ ~here)
                      /\ e # Nil => rgOut = [ok |-> FALSE,
                                             err |-> Err("directive", e,
                                                         rgFields[p[1]].path, tagKey)]

\* after RegisterDirective(&evenDirectiveTest{}): `val:"even"` on an odd value
C16_Witness ==
    /\ "evenDirectiveTest" \in rgRegistered
    /\ rgCalled /\ ~rgOut.ok
    /\ rgOut.err.key = tagKey /\ rgOut.err.detail = "value %d is not even"

----------------------------------------------------------------------------
(* RegisterDirective and ValidateStruct called from several goroutines. The *)
(* table is guarded inside package tagex; the reader/writer discipline is   *)
(* modelled from the specification.                                         *)

NoOne == ""
Writers == {"w1", "w2"}
Readers == {"r1", "r2"}
\* the directive each registering goroutine passes to RegisterDirective
Registers(w) == IF w = "w1" THEN "evenDirectiveTest" ELSE "NonZeroIntValidator"
NotLooked == [table |-> {}, partial |-> FALSE, done |-> FALSE]

\* a write lock granted while readers hold the lock
CanLockIgnoringReaders(writer, readers) == writer = NoOne

\* sync.RWMutex: Lock waits for the writer and for every reader
CanLock(writer, readers) == writer = NoOne /\ readers = {}

\* sync.RWMutex: RLock waits for the writer only
CanRLock(writer) == writer = NoOne

lkStay == UNCHANGED <<vvVars, cvVars, pvVars, hdVars, rgVars, fbVars, fvVars>>

\* RegisterDirective(d), step 1: tagex takes the write lock
RegisterLock(w) ==
    /\ lkPc[w] = "idle" /\ CanLock(lkWriter, lkReaders)
    /\ lkWriter' = w
    /\ lkPc' = [lkPc EXCEPT ![w] = "locked"]
    /\ UNCHANGED <<lkTable, lkPartial, lkReaders, lkStart, lkSeen>> /\ lkStay

\* step 2: the insertion into the table begins
RegisterInsertBegin(w) ==
    /\ lkPc[w] = "locked"
    /\ lkPartial' = TRUE
    /\ lkPc' = [lkPc EXCEPT ![w] = "inserting"]
    /\ UNCHANGED <<lkTable, lkWriter, lkReaders, lkStart, lkSeen>> /\ lkStay

\* step 3: the insertion is complete
RegisterInsertEnd(w) ==
    /\ lkPc[w] = "inserting"
    /\ lkTable' = tagexRegisterDirective(lkTable, Registers(w))
    /\ lkPartial' = FALSE
    /\ lkPc' = [lkPc EXCEPT ![w] = "inserted"]
    /\ UNCHANGED <<lkWriter, lkReaders, lkStart, lkSeen>> /\ lkStay

\* step 4: the lock is released and RegisterDirective returns
RegisterUnlock(w) ==
    /\ lkPc[w] = "inserted"
    /\ lkWriter' = NoOne
    /\ lkPc' = [lkPc EXCEPT ![w] = "done"]
    /\ UNCHANGED <<lkTable, lkPartial, lkReaders, lkStart, lkSeen>> /\ lkStay

\* ValidateStruct(data) begins; the registrations that have returned by now
\* are remembered
ValidateBegin(r) ==
    /\ lkPc[r] \in {"idle", "done"}
    /\ lkStart' = [lkStart EXCEPT ![r] = {Registers(w) : w \in {x \in Writers : lkPc[x] = "done"}}]
    /\ lkSeen' = [lkSeen EXCEPT ![r] = NotLooked]
    /\ lkPc' = [lkPc EXCEPT ![r] = "started"]
    /\ UNCHANGED <<lkTable, lkPartial, lkWriter, lkReaders>> /\ lkStay

\* the lookup of the field's directive: read lock, read, unlock
ValidateRLock(r) ==
    /\ lkPc[r] = "started" /\ CanRLock(lkWriter)
    /\ lkReaders' = lkReaders \cup {r}
    /\ lkPc' = [lkPc EXCEPT ![r] = "rlocked"]
    /\ UNCHANGED <<lkTable, lkPartial, lkWriter, lkStart, lkSeen>> /\ lkStay

ValidateLookup(r) ==
    /\ lkPc[r] = "rlocked"
    /\ lkSeen' = [lkSeen EXCEPT ![r] = [table |-> lkTable, partial |-> lkPartial,
                                        done |-> TRUE]]
    /\ lkPc' = [lkPc EXCEPT ![r] = "looked"]
    /\ UNCHANGED <<lkTable, lkPartial, lkWriter, lkReaders, lkStart>> /\ lkStay

ValidateRUnlock(r) ==
    /\ lkPc[r] = "looked"
    /\ lkReaders' = lkReaders \ {r}
    /\ lkPc' = [lkPc EXCEPT ![r] = "done"]
    /\ UNCHANGED <<lkTable, lkPartial, lkWriter, lkStart, lkSeen>> /\ lkStay

InitLock ==
    /\ lkTable = InitTable /\ lkPartial = FALSE
    /\ lkWriter = NoOne /\ lkReaders = {}
    /\ lkPc = [p \in Writers \cup Readers |-> "idle"]
    /\ lkStart = [r \in Readers |-> {}]
    /\ lkSeen = [r \in Readers |-> NotLooked]
    /\ vvIdle /\ cvIdle /\ pvIdle /\ hdIdle /\ rgIdle /\ fbIdle /\ fvIdle

NextLock ==
    \/ \E w \in Writers : \/ RegisterLock(w) \/ RegisterInsertBegin(w)
                          \/ RegisterInsertEnd(w) \/ RegisterUnlock(w)
    \/ \E r \in Readers : \/ ValidateBegin(r) \/ ValidateRLock(r)
                          \/ ValidateLookup(r) \/ ValidateRUnlock(r)

SpecLock == InitLock /\ [][NextLock]_vars

\* C17: registrations are serialised against lookups: no lookup holds the
\* table while a registration does, a lookup never observes a table whose
\* insertion is under way, what it observes is the table before or after
\* each registration, and it holds every directive whose registration had
\* returned when the validation began.
C17_ReaderWriterDiscipline ==
    /\ lkWriter # NoOne => lkReaders = {}
    /\ lkPartial => lkWriter # NoOne
    /\ \A r \in Readers :
          lkSeen[r].done =>
              /\ ~lkSeen[r].partial
              /\ InitTable \subseteq lkSeen[r].table
              /\ lkSeen[r].table \subseteq InitTable \cup {Registers(w) : w \in Writers}
              /\ lkStart[r] \subseteq lkSeen[r].table

\* two lookups hold the table at once; one validation began after a
\* registration returned and found its directive, the other began earlier
C17_Witness ==
    /\ lkReaders = Readers
    /\ lkSeen["r1"].done /\ lkStart["r1"] # {}
    /\ lkStart["r2"] = {}
    /\ \E w \in Writers : lkPc[w] = "idle"

----------------------------------------------------------------------------
(* Form binding (form.go): one struct field with a `field` tag is bound     *)
(* from the form's multimap. Texts are sequences of characters.             *)

\* the names of the tag's parameters
KeyParam == <<"k", "e", "y">>
MaxParam == <<"m", "a", "x">>
RequiredParam == <<"r", "e", "q", "u", "i", "r", "e", "d">>
DefaultParam == <<"d", "e", "f", "a", "u", "l", "t">>

\* a map[string]string: args[k] of a missing key is the empty string
NoArgs == [k \in {} |-> <<>>]
Has(args, k) == k \in DOMAIN args
Arg(args, k) == IF Has(args, k) THEN args[k] ELSE <<>>
Put(args, k, v) == [x \in DOMAIN args \cup {k} |-> IF x = k THEN v ELSE args[x]]

MalformedPair == "malformed key value pair %q, expected format is \"key=value\""

\* the loop of splitFormTag over parts[1:]
RECURSIVE splitPairs(_, _)
splitPairs(pairs, args) ==
    IF pairs = <<>> THEN [directive |-> "field", args |-> args, err |-> Nil]
    ELSE LET pair == TrimSpace(Head(pairs))
             kv == SplitOn(pair, "=")
         IN  IF pair = <<>> THEN splitPairs(Tail(pairs), args)
             ELSE IF Len(kv) # 2
             THEN [directive |-> "field", args |-> NoArgs, err |-> MalformedPair]
             ELSE IF TrimSpace(kv[1]) = <<>> \/ TrimSpace(kv[2]) = <<>>
             THEN [directive |-> "field", args |-> NoArgs, err |-> MalformedPair]
             ELSE splitPairs(Tail(pairs),
                             Put(args, TrimSpace(kv[1]), TrimSpace(kv[2])))

\* func splitFormTag(tagVal string) (string, map[string]string, error)
splitFormTag(tagVal) ==
    LET parts == SplitOn(tagVal, ",") IN
    IF Len(parts) = 0 \/ TrimSpace(parts[1]) = <<>>
    THEN [directive |-> "", args |-> NoArgs, err |-> "field tag value is required"]
    ELSE splitPairs(Tail(parts), Put(NoArgs, KeyParam, TrimSpace(parts[1])))

\* strconv.ParseBool: [ok, val]
TrueTexts == {<<"1">>, <<"t">>, <<"T">>, <<"t", "r", "u", "e">>,
              <<"T", "R", "U", "E">>, <<"T", "r", "u", "e">>}
FalseTexts == {<<"0">>, <<"f">>, <<"F">>, <<"f", "a", "l", "s", "e">>,
               <<"F", "A", "L", "S", "E">>, <<"F", "a", "l", "s", "e">>}
ParseBool(str) ==
    IF str \in TrueTexts THEN [ok |-> TRUE, val |-> TRUE]
    ELSE IF str \in FalseTexts THEN [ok |-> TRUE, val |-> FALSE]
    ELSE [ok |-> FALSE, val |-> FALSE]

\* func parseBoolParam(raw string) (bool, error)
parseBoolParam(raw) ==
    LET t == TrimSpace(raw) IN
    IF t = <<>> THEN [val |-> FALSE, err |-> Nil]
    ELSE IF ~ParseBool(t).ok THEN [val |-> FALSE, err |-> "invalid bool %q"]
    ELSE [val |-> ParseBool(t).val, err |-> Nil]

TooMany == "too many values (%d), max %d"

\* an enforceMax that lets exactly max + 1 values through
enforceMaxOffByOne(raw, maxRaw) ==
    LET t == TrimSpace(maxRaw)
        bad == t # <<>> /\ (~Atoi(t).ok \/ Atoi(t).val <= 0)
        max == IF t # <<>> /\ ~bad THEN Atoi(t).val ELSE 1
    IN  IF bad THEN "invalid max %q"
        ELSE IF Len(raw) > max + 1 THEN TooMany
        ELSE Nil

\* func enforceMax(raw []string, maxRaw string) error
enforceMax(raw, maxRaw) ==
    LET t == TrimSpace(maxRaw)
        bad == t # <<>> /\ (~Atoi(t).ok \/ Atoi(t).val <= 0)
        max == IF t # <<>> /\ ~bad THEN Atoi(t).val ELSE 1
    IN  IF bad THEN "invalid max %q"
        ELSE IF Len(raw) > max THEN TooMany
        ELSE Nil

\* var ErrFieldRequired = errors.New("field is required")
ErrFieldRequired == "field is required"

\* a wrapper that drops the path and names the field alone
wrapFormFieldErrorBareName(path, fieldName, err) ==
    [field |-> fieldName, cause |-> err]

\* func wrapFormFieldError(path, fieldName string, err error) error
wrapFormFieldError(path, fieldName, err) ==
    [field |-> IF path = <<>> THEN fieldName ELSE path \o <<".">> \o fieldName,
     cause |-> err]
NoFormErr == [field |-> <<>>, cause |-> Nil]

\* The kinds of field: string, int, *int, []int and map[string]string, and
\* for records a struct and a pointer to a struct.
\* A *int is [nil, v]: nil, or a pointer to v. A struct is the sequence of
\* its fields; a pointer to a struct is [nil, fields], fields being the
\* struct it points to, or the zero struct it would point to when nil.
NilPtr == [nil |-> TRUE, v |-> 0]
PtrTo(v) == [nil |-> FALSE, v |-> v]
ParseIntErr == "strconv.ParseInt: parsing %q: invalid syntax"

\* the reflect.Int case of setValueFromRaw: strconv.ParseInt(raw[0], 10, bits)
setIntFromRaw(cur, raw) ==
    IF Atoi(raw[1]).ok THEN [val |-> Atoi(raw[1]).val, err |-> Nil]
    ELSE [val |-> cur, err |-> ParseIntErr]

\* func setSliceFromRaw(fieldValue reflect.Value, raw []string) error, on a
\* []int: the field is assigned only when every item converts
setSliceFromRaw(cur, raw) ==
    IF \A i \in 1..Len(raw) : Atoi(raw[i]).ok
    THEN [val |-> [i \in 1..Len(raw) |-> Atoi(raw[i]).val], err |-> Nil]
    ELSE [val |-> cur, err |-> ParseIntErr]

\* func setValueFromRaw(fieldValue reflect.Value, raw []string) error: the
\* field's value afterwards and the error. A nil pointer is allocated before
\* the conversion is tried.
setValueFromRaw(kind, cur, raw) ==
    CASE kind = "string" -> [val |-> raw[1], err |-> Nil]
      [] kind = "int"    -> setIntFromRaw(cur, raw)
      [] kind = "ptr"    ->
            LET r == setIntFromRaw(IF cur.nil THEN 0 ELSE cur.v, raw)
            IN  [val |-> PtrTo(r.val), err |-> r.err]
      [] kind = "slice"  -> setSliceFromRaw(cur, raw)
      [] kind = "map"    -> [val |-> cur, err |-> "unsupported field type %s"]
      [] kind = "struct" -> [val |-> cur, err |-> "unsupported field type %s"]
      [] kind = "ptrstruct" ->
            [val |-> [cur EXCEPT !.nil = FALSE], err |-> "unsupported field type %s"]

\* wraps the error of a conversion, if any
Wrapped(path, fieldName, r) ==
    [val |-> r.val,
     err |-> IF r.err = Nil THEN NoFormErr ELSE wrapFormFieldError(path, fieldName, r.err)]

\* an applyDefaultOrRequired that applies the default before it looks at
\* required
applyDefaultFirst(kind, cur, args, path, fieldName) ==
    LET required == parseBoolParam(Arg(args, RequiredParam)) IN
    IF Has(args, DefaultParam) /\ args[DefaultParam] # <<>>
    THEN Wrapped(path, fieldName, setValueFromRaw(kind, cur, <<args[DefaultParam]>>))
    ELSE IF required.err # Nil
    THEN [val |-> cur, err |-> wrapFormFieldError(path, fieldName, required.err)]
    ELSE IF required.val
    THEN [val |-> cur, err |-> wrapFormFieldError(path, fieldName, ErrFieldRequired)]
    ELSE [val |-> cur, err |-> NoFormErr]

\* func applyDefaultOrRequired(fieldValue, args, path, fieldName) error
applyDefaultOrRequired(kind, cur, args, path, fieldName) ==
    LET required == parseBoolParam(Arg(args, RequiredParam)) IN
    IF required.err # Nil
    THEN [val |-> cur, err |-> wrapFormFieldError(path, fieldName, required.err)]
    ELSE IF required.val
    THEN [val |-> cur, err |-> wrapFormFieldError(path, fieldName, ErrFieldRequired)]
    ELSE IF Has(args, DefaultParam) /\ args[DefaultParam] # <<>>
    THEN Wrapped(path, fieldName, setValueFromRaw(kind, cur, <<args[DefaultParam]>>))
    ELSE [val |-> cur, err |-> NoFormErr]

NoLookup == <<>>

\* func bindStructFields, the body of its loop (86-113) for one exported
\* field that carries a `field` tag, in the struct reached by path: the
\* field's value afterwards, the error returned and the key looked up in the
\* multimap
bindField(field, values, cur, path) ==
    LET st == splitFormTag(field.tag) IN
    IF st.err # Nil
    THEN [val |-> cur, err |-> wrapFormFieldError(path, field.name, st.err), key |-> NoLookup]
    ELSE IF st.directive # "field"
    THEN [val |-> cur, key |-> NoLookup,
          err |-> wrapFormFieldError(path, field.name, "unsupported form directive %q")]
    ELSE
    LET trimmed == TrimSpace(Arg(st.args, KeyParam))
        key == IF trimmed = <<>> THEN field.name ELSE trimmed
        ok == key \in DOMAIN values
    IN  IF ~ok \/ Len(values[key]) = 0 \/ values[key][1] = <<>>
        THEN LET r == applyDefaultOrRequired(field.kind, cur, st.args, path, field.name)
             IN  [val |-> r.val, err |-> r.err, key |-> key]
        ELSE LET e == enforceMax(values[key], Arg(st.args, MaxParam)) IN
             IF e # Nil
             THEN [val |-> cur, err |-> wrapFormFieldError(path, field.name, e), key |-> key]
             ELSE LET r == Wrapped(path, field.name,
                                   setValueFromRaw(field.kind, cur, values[key]))
                  IN  [val |-> r.val, err |-> r.err, key |-> key]

\* func bindFormValues(dst any, values url.Values) error, on a struct with
\* the one field fbField: bindStructFields(val, values, "")
BindFormValues ==
    /\ ~fbDone
    /\ LET r == bindField(fbField, fbValues, fbBefore, <<>>) IN
        /\ fbAfter' = r.val
        /\ fbErr' = r.err
        /\ fbKey' = r.key
    /\ fbDone' = TRUE
    /\ UNCHANGED <<fbField, fbParams, fbValues, fbBefore,
                   vvVars, cvVars, pvVars, hdVars, rgVars, lkVars, fvVars>>

\* The runs: a field N of each kind, tagged from every combination of the
\* parameters, bound from a multimap with one entry or none.
MaxRaw == 3             \* values held by the multimap under one key

FieldName == <<"N">>
TagKeys == {<<"n">>, <<>>}
MaxTexts == {<<>>, <<"2">>, <<"0">>, <<"x">>}
RequiredTexts == {<<>>, <<"t", "r", "u", "e">>, <<"f", "a", "l", "s", "e">>, <<"x">>}
DefaultTexts == {<<>>, <<"7">>, <<"x">>}
Params == [key : TagKeys, max : MaxTexts, required : RequiredTexts,
           default : DefaultTexts]

\* the tag as the tests write it: the key, then ", name=value" per parameter
Pair(name, text) == IF text = <<>> THEN <<>> ELSE <<",", " ">> \o name \o <<"=">> \o text
MkTag(p) == p.key \o Pair(MaxParam, p.max) \o Pair(RequiredParam, p.required)
                  \o Pair(DefaultParam, p.default)

Kinds == {"string", "int", "ptr", "slice", "map"}
Zero(kind) ==
    CASE kind = "string" -> <<>>
      [] kind = "int"    -> 0
      [] kind = "ptr"    -> NilPtr
      [] kind = "slice"  -> <<>>
      [] kind = "map"    -> <<>>
Befores(kind) ==
    {Zero(kind)} \cup (IF kind = "int" THEN {3}
                       ELSE IF kind = "ptr" THEN {PtrTo(3)} ELSE {})

RawLists == SeqsUpTo({<<>>, <<"7">>}, MaxRaw) \cup {<<<<"x">>>>}
Multimaps ==
    {NoArgs} \cup {[k \in {key} |-> raw] : key \in {<<"n">>, FieldName}, raw \in RawLists}

InitForm ==
    /\ fbParams \in Params
    /\ \E kind \in Kinds :
          /\ fbField = [name |-> FieldName, kind |-> kind, tag |-> MkTag(fbParams)]
          /\ fbBefore \in Befores(kind)
    /\ fbValues \in Multimaps
    /\ fbAfter = fbBefore
    /\ fbKey = NoLookup
    /\ fbErr = NoFormErr
    /\ fbDone = FALSE
    /\ vvIdle /\ cvIdle /\ pvIdle /\ hdIdle /\ rgIdle /\ lkIdle /\ fvIdle

NextForm == BindFormValues

SpecForm == InitForm /\ [][NextForm]_vars

\* What a finished binding met: the values under the key it looked up.
fbLooked == fbDone /\ fbKey # NoLookup
fbRaw == IF fbKey \in DOMAIN fbValues THEN fbValues[fbKey] ELSE <<>>
\* the value is absent from the multimap or its first value is empty
fbAbsent == fbLooked /\ (fbRaw = <<>> \/ fbRaw[1] = <<>>)
fbRequiredTrue == fbParams.required \in TrueTexts
fbRequiredFalse == fbParams.required = <<>> \/ fbParams.required \in FalseTexts
fbUnchanged == fbAfter = fbBefore

\* the texts of the runs that convert to the kind, and what they convert to
Converts(kind, raw) ==
    CASE kind = "string" -> TRUE
      [] kind \in {"int", "ptr"} -> raw[1] = <<"7">>
      [] kind = "slice" -> \A i \in 1..Len(raw) : raw[i] = <<"7">>
      [] kind = "map" -> FALSE
Converted(kind, raw) ==
    CASE kind = "string" -> raw[1]
      [] kind = "int" -> 7
      [] kind = "ptr" -> PtrTo(7)
      [] kind = "slice" -> [i \in 1..Len(raw) |-> 7]

\* C18: for a field whose value is absent from the multimap or starts with
\* an empty value: with required true the binding fails with the 'field is
\* required' error and the default is ignored; with required false or not
\* given, a non-empty default is converted into the field as a supplied
\* value would be, and without a default the field is left as it was (a nil
\* pointer stays nil). A required text that is no bool is an error.
C18_RequiredThenDefault ==
    fbAbsent =>
        /\ fbRequiredTrue =>
              /\ fbErr = wrapFormFieldError(<<>>, FieldName, ErrFieldRequired)
              /\ fbUnchanged
        /\ (fbRequiredFalse /\ fbParams.default # <<>>) =>
              /\ [val |-> fbAfter, err |-> fbErr] =
                    Wrapped(<<>>, FieldName, setValueFromRaw(fbField.kind, fbBefore,
                                                       <<fbParams.default>>))
              /\ Converts(fbField.kind, <<fbParams.default>>) =>
                    /\ fbErr = NoFormErr
                    /\ fbAfter = Converted(fbField.kind, <<fbParams.default>>)
              /\ ~Converts(fbField.kind, <<fbParams.default>>) => fbErr # NoFormErr
        /\ (fbRequiredFalse /\ fbParams.default = <<>>) =>
              /\ fbErr = NoFormErr
              /\ fbUnchanged
        /\ (~fbRequiredTrue /\ ~fbRequiredFalse) =>
              /\ fbErr = wrapFormFieldError(<<>>, FieldName, "invalid bool %q")
              /\ fbUnchanged

\* a required *int whose entry starts with an empty value, a default given:
\* the binding failed and the pointer is still nil
C18_Witness ==
    /\ fbAbsent /\ fbRequiredTrue
    /\ fbField.kind = "ptr" /\ fbBefore = NilPtr /\ fbAfter = NilPtr
    /\ fbParams.default = <<"7">>
    /\ Len(fbRaw) = 2 /\ fbRaw[2] = <<"7">>
    /\ fbErr.cause = ErrFieldRequired

\* max as the tag gives it: 1 when it gives none; valid when positive
fbMaxValid ==
    fbParams.max = <<>> \/ (Atoi(fbParams.max).ok /\ Atoi(fbParams.max).val > 0)
fbMax == IF fbParams.max = <<>> THEN 1 ELSE Atoi(fbParams.max).val
fbHeld == fbLooked /\ fbKey \in DOMAIN fbValues

\* C19 as stated: when the multimap holds more values under the field's key
\* than max (1 when the tag gives none) the binding fails with the 'too many
\* values' error and leaves the field as it was; with at most max values the
\* field is bound from them.
C19_AtMostMaxValues ==
    (fbHeld /\ fbMaxValid) =>
        /\ Len(fbRaw) > fbMax =>
              /\ fbErr = wrapFormFieldError(<<>>, FieldName, TooMany)
              /\ fbUnchanged
        /\ (Len(fbRaw) >= 1 /\ Len(fbRaw) <= fbMax /\ Converts(fbField.kind, fbRaw)) =>
              /\ fbErr = NoFormErr
              /\ fbAfter = Converted(fbField.kind, fbRaw)

\* C19, amended: the limit applies to an entry that starts with a non-empty
\* value: more values than max fail with the 'too many values' error and
\* leave the field as it was, at most max values are converted into the
\* field (an error when they do not convert), a max that is no positive
\* integer is an 'invalid max' error; an entry that starts with an empty
\* value is treated as absent whatever its length, without an arity error.
C19_AtMostMaxValuesAfterNonEmptyFirst ==
    /\ (fbLooked /\ fbRaw # <<>> /\ fbRaw[1] # <<>>) =>
          /\ ~fbMaxValid =>
                /\ fbErr = wrapFormFieldError(<<>>, FieldName, "invalid max %q")
                /\ fbUnchanged
          /\ (fbMaxValid /\ Len(fbRaw) > fbMax) =>
                /\ fbErr = wrapFormFieldError(<<>>, FieldName, TooMany)
                /\ fbUnchanged
          /\ (fbMaxValid /\ Len(fbRaw) <= fbMax) =>
                /\ fbErr.cause \notin {TooMany, "invalid max %q"}
                /\ Converts(fbField.kind, fbRaw) =>
                      /\ fbErr = NoFormErr
                      /\ fbAfter = Converted(fbField.kind, fbRaw)
                /\ ~Converts(fbField.kind, fbRaw) => fbErr # NoFormErr
    /\ fbAbsent => fbErr.cause \notin {TooMany, "invalid max %q"}

\* three values under max=2 for an int field holding 3: the arity error, the
\* field still 3
C19_Witness ==
    /\ fbLooked /\ Len(fbRaw) = 3 /\ fbRaw[1] # <<>>
    /\ fbParams.max = <<"2">>
    /\ fbField.kind = "int" /\ fbBefore = 3 /\ fbAfter = 3
    /\ fbErr.cause = TooMany

\* C20: a tag that specifies no lookup key makes the binding look the
\* field's values up under the field's own name, and the binding does not
\* fail for the lack of a key.
C20_KeyDefaultsToFieldName ==
    (fbDone /\ fbParams.key = <<>>) =>
        /\ fbKey = FieldName
        /\ fbErr.cause # "field tag value is required"

\* what holds instead: every tag without a key is rejected before a lookup
KeylessTagRejected ==
    (fbDone /\ fbParams.key = <<>>) =>
        /\ fbKey = NoLookup
        /\ fbErr = wrapFormFieldError(<<>>, FieldName, "field tag value is required")
        /\ fbUnchanged

----------------------------------------------------------------------------
(* The dynamic types of binding errors. wrapFormFieldError wraps its cause   *)
(* with %w, so errors.As and errors.Is look at the wrapper and then at the   *)
(* cause.                                                                    *)

\* the type of a cause: errors.New and a fmt.Errorf without %w both give an
\* *errors.errorString, strconv.ParseInt a *strconv.NumError
ErrorType(cause) ==
    IF cause = ParseIntErr THEN "*strconv.NumError" ELSE "*errors.errorString"

\* the errors below the wrapper: the cause, and for a *strconv.NumError
\* the strconv.ErrSyntax its Unwrap returns, an errors.New value
ErrorCauses(err) ==
    IF err.cause = ParseIntErr THEN <<err.cause, "invalid syntax">>
    ELSE <<err.cause>>

\* the types errors.As meets when it unwraps a binding error
ErrorChain(err) ==
    IF err = NoFormErr THEN <<>>
    ELSE <<"*fmt.wrapError">>
         \o [i \in 1..Len(ErrorCauses(err)) |->
                ErrorType(ErrorCauses(err)[i])]

\* errors.As(err, &target) for a target of the given type
ErrorsAs(err, type) == \E i \in 1..Len(ErrorChain(err)) : ErrorChain(err)[i] = type

\* errors.Is(err, target) for a sentinel made by errors.New
ErrorsIs(err, target) ==
    /\ err # NoFormErr
    /\ \E i \in 1..Len(ErrorCauses(err)) : ErrorCauses(err)[i] = target

\* C22: a tag whose max is no positive integer, on a field a value is
\* supplied for, makes Validate fail with a conversion-class error (one that
\* matches tagex.ConversionError under errors.As).
C22_InvalidMaxIsConversionError ==
    (fbLooked /\ ~fbAbsent /\ ~fbMaxValid) =>
        /\ fbErr # NoFormErr
        /\ ErrorsAs(fbErr, "*tagex.ConversionError")

\* what holds instead: the error is a plain one wrapped with the field name
InvalidMaxIsPlainError ==
    (fbLooked /\ ~fbAbsent /\ ~fbMaxValid) =>
        /\ fbErr = wrapFormFieldError(<<>>, FieldName, "invalid max %q")
        /\ ErrorChain(fbErr) = <<"*fmt.wrapError", "*errors.errorString">>

----------------------------------------------------------------------------
(* The text of a `field` tag: the key n followed by up to MaxSegs segments,  *)
(* well-formed and not, bound into a string field.                           *)

MaxSegs == 2            \* comma-separated segments after the key

Sp == <<" ">>
Eq == <<"=">>
SegmentTexts ==
    {<<>>, Sp,
     MaxParam \o Eq \o <<"2">>,
     Sp \o DefaultParam \o <<"\t">> \o Eq \o <<"U+2003">> \o <<"7">> \o <<"\n">>,
     DefaultParam \o Eq \o <<"7">>,
     DefaultParam,
     Eq \o <<"7">>,
     DefaultParam \o Eq,
     DefaultParam \o Eq \o <<"\t">>,
     DefaultParam \o Eq \o <<"7">> \o Eq \o <<"7">>}

RECURSIVE JoinSegments(_)
JoinSegments(segs) ==
    IF segs = <<>> THEN <<>> ELSE <<",">> \o Head(segs) \o JoinSegments(Tail(segs))

SegmentTags == {<<"n">> \o JoinSegments(segs) : segs \in SeqsUpTo(SegmentTexts, MaxSegs)}

\* the parameters are in the tag's text only
InitFormTag ==
    /\ fbParams = [key |-> <<"n">>, max |-> <<>>, required |-> <<>>, default |-> <<>>]
    /\ \E t \in SegmentTags :
          fbField = [name |-> FieldName, kind |-> "string", tag |-> t]
    /\ fbBefore = <<>>
    /\ fbValues \in {NoArgs, [k \in {<<"n">>} |-> <<<<"5">>>>]}
    /\ fbAfter = fbBefore
    /\ fbKey = NoLookup
    /\ fbErr = NoFormErr
    /\ fbDone = FALSE
    /\ vvIdle /\ cvIdle /\ pvIdle /\ hdIdle /\ rgIdle /\ lkIdle /\ fvIdle

NextFormTag == BindFormValues

SpecFormTag == InitFormTag /\ [][NextFormTag]_vars

\* the segments after the first, as written
fbSegments == Tail(SplitOn(fbField.tag, ","))
EqualsAt(seg) == {i \in 1..Len(seg) : seg[i] = "="}
\* key=value with exactly one '=', and a key and a value left after trimming
WellFormedPair(seg) ==
    /\ Cardinality(EqualsAt(seg)) = 1
    /\ LET i == CHOOSE k \in EqualsAt(seg) : TRUE IN
          /\ TrimSpace(SubSeq(seg, 1, i - 1)) # <<>>
          /\ TrimSpace(SubSeq(seg, i + 1, Len(seg))) # <<>>
fbMalformed == fbErr = wrapFormFieldError(<<>>, FieldName, MalformedPair)

\* C26: every segment after the first must be a key=value pair with exactly
\* one '=', a non-empty trimmed key and a non-empty trimmed value; any other
\* segment, an empty one included, makes the binding fail with the
\* malformed-pair error; the whitespace around key and value is trimmed.
C26_EverySegmentIsAPair ==
    fbDone =>
        /\ (\E i \in 1..Len(fbSegments) : ~WellFormedPair(fbSegments[i])) => fbMalformed
        /\ (\A i \in 1..Len(fbSegments) : WellFormedPair(fbSegments[i])) =>
              /\ fbErr = NoFormErr
              /\ (fbValues = NoArgs /\ Len(fbSegments) = 1
                    /\ Len(fbSegments[1]) > 0 /\ fbSegments[1][1] = " ")
                 => fbAfter = <<"7">>

\* what holds instead: a blank segment is skipped, every other segment must
\* be a well-formed pair
BlankSegmentsSkipped ==
    fbDone =>
        (fbMalformed <=>
            \E i \in 1..Len(fbSegments) :
                /\ TrimSpace(fbSegments[i]) # <<>>
                /\ ~WellFormedPair(fbSegments[i]))

\* the binding failed in setValueFromRaw, on a supplied value or a default
fbConversionFailed ==
    fbDone /\ fbErr.cause \in {ParseIntErr, "unsupported field type %s"}

\* C28: when converting a supplied or default value into the field fails,
\* the field keeps exactly the value it had before the call: a scalar is not
\* written, a slice is replaced only if every element converted, a nil
\* pointer to a scalar stays nil.
C28_FailedConversionKeepsValue ==
    fbConversionFailed => fbUnchanged

\* what holds instead: only a nil pointer is changed by a failed conversion,
\* it is left pointing at a zero value
FailedConversionAllocates ==
    fbConversionFailed =>
        IF fbField.kind = "ptr" /\ fbBefore = NilPtr
        THEN fbAfter = PtrTo(0)
        ELSE fbUnchanged

----------------------------------------------------------------------------
\* C27: Set returns nil if and only if it replaced the stored value with its
\* argument, whatever the validator returns: no Set returns nil and leaves
\* the stored value as it was, none stores the value and returns an error.
C27_SetNilIffStored ==
    vvRet # NotCalled =>
        /\ vvRet = Nil => vvValue = vvArg
        /\ vvRet # Nil => vvValue = vvPrev

\* what holds instead: Set stores exactly when the verdict is true, and
\* returns nil then; on a false verdict it returns the validator's error,
\* nil or not
SetStoresIffAccepted ==
    (vvRet # NotCalled /\ vvValidator # NoValidator) =>
        IF Validate(vvValidator, vvArg).ok
        THEN vvValue = vvArg /\ vvRet = Nil
        ELSE vvValue = vvPrev /\ vvRet = Validate(vvValidator, vvArg).err

----------------------------------------------------------------------------
\* A zero or negative size bound, or an inverted range bound, on the fields
\* of a configured validator.
Misconfigured(kind, cfg) ==
    CASE kind \in {"min", "max"} -> cfg.Size <= 0
      [] kind = "len" -> cfg.Min <= 0 \/ cfg.Max <= 0 \/ cfg.Min > cfg.Max
      [] kind = "rangeint" -> cfg.Min > cfg.Max
      [] kind = "rangefloat" -> FloatLt(cfg.Max, cfg.Min)
      [] kind = "betweentime" ->
            ~IsZero(cfg.Start) /\ ~IsZero(cfg.End) /\ AfterTime(cfg.Start, cfg.End)
      [] kind = "iprange" ->
            /\ normalizeIP(cfg.Start) # NilIP /\ normalizeIP(cfg.End) # NilIP
            /\ Len(normalizeIP(cfg.Start)) = Len(normalizeIP(cfg.End))
            /\ bytesCompare(normalizeIP(cfg.Start), normalizeIP(cfg.End)) > 0
      [] OTHER -> FALSE

\* the errors that name a fault of the configuration
ConfigurationErrors ==
    {"value of parameter \"size\" cannot be 0",
     "value of parameter \"size\" cannot be negative",
     "\"min\" value cannot be 0", "\"max\" value cannot be 0",
     "\"min\" and \"max\" cannot be negative", "\"min\" cannot exceed \"max\"",
     "\"start\" time cannot be after \"end\" time",
     "\"start\" must be less than or equal to \"end\""}

\* the candidates of the runs of a kind
CandidatesOf(kind) ==
    CASE kind \in {"min", "max", "len"} -> Texts
      [] kind = "rangeint" -> Candidates
      [] kind = "rangefloat" -> FloatCandidates
      [] kind = "betweentime" -> {Instant(n) : n \in 0..(MaxVal + 1)}
      [] kind = "iprange" -> {NilIP, <<1, 0, 0, 1>>, <<255, 0, 0, 0>>,
                              <<32>> \o Zeros(14) \o <<1>>}

\* C24: a validator configured with a zero or negative size bound or an
\* inverted range bound returns (false, configuration error) for every
\* candidate, and the same error whatever the candidate is.
C24_MisconfiguredSameError ==
    (pvOut # Pending /\ Misconfigured(pvKind, pvCfg)) =>
        /\ ~pvOut.ok
        /\ pvOut.err \in ConfigurationErrors
        /\ \A v \in CandidatesOf(pvKind) :
              BuiltinValidate(pvKind, pvCfg, v) = pvOut

\* what holds instead: the length and time validators check the
\* configuration first; the int and float range validators have no check of
\* it and report the candidate as out of range; the IP range validator
\* checks the candidate's validity and family before the order of the bounds
MisconfiguredRejects ==
    (pvOut # Pending /\ Misconfigured(pvKind, pvCfg)) =>
        /\ ~pvOut.ok
        /\ pvKind \in {"min", "max", "len", "betweentime"} =>
              pvOut.err \in ConfigurationErrors
        /\ pvKind = "rangeint" => pvOut.err = "value %d is out of range [%d, %d]"
        /\ pvKind = "rangefloat" => pvOut.err = "value %g is out of range [%g, %g]"
        /\ pvKind = "iprange" =>
              pvOut.err = IF normalizeIP(pvIn) = NilIP THEN "invalid IP"
                          ELSE IF Len(normalizeIP(pvIn)) # Len(normalizeIP(pvCfg.Start))
                          THEN "ip family mismatch"
                          ELSE "\"start\" must be less than or equal to \"end\""

----------------------------------------------------------------------------
(* Binding a whole record (form.go 62-143) and ValidateForm                 *)
(* (form_handler.go). A record is the sequence of its fields in declaration *)
(* order; a field has a name, is exported or not, carries a `field` tag or  *)
(* not, has a kind and a value, and carries the text of its `val` tag       *)
(* (empty: none).                                                           *)

\* a loop that skips no field
unexportedNever(f) == FALSE

\* if field.PkgPath != "" { continue }
unexported(f) == ~f.exported

\* nextPath := field.Name; if path != "" { nextPath = path + "." + field.Name }
nextPath(path, name) == IF path = <<>> THEN name ELSE path \o <<".">> \o name

\* a switch that descends into struct values only
descendsStructOnly(f) == f.kind = "struct"

\* the switch on fieldValue.Kind() (form.go 115-139): a struct and a non-nil
\* pointer to a struct are descended into
descends(f) ==
    \/ f.kind = "struct"
    \/ f.kind = "ptrstruct" /\ ~f.val.nil

\* the struct a descended field holds, and the field holding a new struct
inner(f) == IF f.kind = "struct" THEN f.val ELSE f.val.fields
withInner(f, fields) ==
    [f EXCEPT !.val = IF f.kind = "struct" THEN fields
                      ELSE [nil |-> FALSE, fields |-> fields]]

\* func bindStructFields(val reflect.Value, values url.Values, path string):
\* the record afterwards, the error returned, and the tagged fields handled,
\* in order, by their dotted names. bindStructFieldsFrom is its loop from
\* field n on; the operators before it are the parts of one round.
RECURSIVE bindStructFieldsFrom(_, _, _, _)

\* if tagValue, ok := field.Tag.Lookup("field"); ok { ... } (86-113)
bindTagged(f, values, path) ==
    IF f.tagged
    THEN bindField([name |-> f.name, kind |-> f.kind, tag |-> f.tag],
                   values, f.val, path)
    ELSE [val |-> f.val, err |-> NoFormErr, key |-> NoLookup]

\* the dotted name of a field whose tag was handled
visited(f, path) == IF f.tagged THEN <<nextPath(path, f.name)>> ELSE <<>>

\* the rounds after field n, which is left as f1
bindRest(fields, n, values, path, f1, bound) ==
    [bindStructFieldsFrom([fields EXCEPT ![n] = f1], n + 1, values, path)
        EXCEPT !.bound = bound \o @]

\* if err := bindStructFields(fieldValue, values, nextPath); err != nil
\* { return err } (121-123, 136-138), r being what the call returned
bindInner(fields, n, values, path, f1, bound, r) ==
    IF r.err # NoFormErr
    THEN [fields |-> [fields EXCEPT ![n] = withInner(f1, r.fields)],
          err |-> r.err, bound |-> bound \o r.bound]
    ELSE bindRest(fields, n, values, path, withInner(f1, r.fields),
                  bound \o r.bound)

\* switch fieldValue.Kind() (115-139), after the tag of field n was handled
\* with error err and left the field as f1
bindKind(fields, n, values, path, f1, bound, err) ==
    IF err # NoFormErr
    THEN [fields |-> [fields EXCEPT ![n] = f1], err |-> err, bound |-> bound]
    ELSE IF descends(f1)
    THEN bindInner(fields, n, values, path, f1, bound,
                   bindStructFieldsFrom(inner(f1), 1, values,
                                        nextPath(path, f1.name)))
    ELSE bindRest(fields, n, values, path, f1, bound)

\* one round for an exported field, b being what its tag's handling gave
bindRound(fields, n, values, path, b) ==
    bindKind(fields, n, values, path, [fields[n] EXCEPT !.val = b.val],
             visited(fields[n], path), b.err)

bindStructFieldsFrom(fields, n, values, path) ==
    IF n > Len(fields)
    THEN [fields |-> fields, err |-> NoFormErr, bound |-> <<>>]
    ELSE IF unexported(fields[n])
    THEN bindStructFieldsFrom(fields, n + 1, values, path)
    ELSE bindRound(fields, n, values, path, bindTagged(fields[n], values, path))

bindStructFields(fields, values, path) ==
    bindStructFieldsFrom(fields, 1, values, path)

\* func bindFormValues(dst any, values url.Values) error, on a pointer to a
\* struct: bindStructFields(val, values, "")
bindFormValues(dst, values) == bindStructFields(dst, values, <<>>)

\* The record as the validation pass walks it: exported fields, structs and
\* non-nil pointers to structs as nested records, each leaf with the text of
\* its `val` tag.
RECURSIVE ToData(_)
ToData(fields) ==
    IF fields = <<>> THEN <<>>
    ELSE LET f == Head(fields) IN
         (IF unexported(f) THEN <<>>
          ELSE IF f.kind = "ptrstruct" /\ f.val.nil THEN <<>>
          ELSE IF f.kind \in {"struct", "ptrstruct"}
          THEN <<Struct(f.name, ToData(inner(f)))>>
          ELSE <<Leaf(f.name, f.val, "", "", f.valTag)>>)
         \o ToData(Tail(fields))

\* An error of Validate or ValidateForm: the binding error, the error of
\* the validation pass, or the error of ParseForm; ErrNone is nil.
ErrNone == [bind |-> NoFormErr, tag |-> NilErr, parse |-> FALSE]
BindError(e) == [ErrNone EXCEPT !.bind = e]
TagError(e) == [ErrNone EXCEPT !.tag = e]
ParseError == [ErrNone EXCEPT !.parse = TRUE]

\* a FormStatus without the errors.Is(err, ErrFieldRequired) case
FormStatusWithoutRequired(err) ==
    IF err = ErrNone THEN 200
    ELSE IF err.tag # NilErr THEN 422
    ELSE 400

\* func FormStatus(err error) int. The errors of the validation pass are
\* the ones errors.As finds a *tagex.TagError in.
FormStatus(err) ==
    IF err = ErrNone THEN 200
    ELSE IF err.tag # NilErr THEN 422
    ELSE IF ErrorsIs(err.bind, ErrFieldRequired) THEN 422
    ELSE 400

\* the results before the calls return
NotReturned == [ok |-> FALSE, err |-> ErrNone]
NoFormError == 0

\* func NewFormValidator(r *http.Request): r.ParseForm() succeeds or fails;
\* on failure ValidateForm returns a FormError with status 400
NewFormValidator ==
    /\ fvPc = "start"
    /\ \E parsed \in BOOLEAN :
          IF parsed
          THEN fvPc' = "made" /\ fvRet' = fvRet
          ELSE /\ fvPc' = "done"
               /\ fvRet' = [ok |-> FALSE, status |-> 400, err |-> ParseError]
    /\ UNCHANGED <<fvDst, fvValues, fvAfter, fvBound, fvData, fvEvals, fvOut,
                   vvVars, cvVars, pvVars, hdVars, rgVars, lkVars, fbVars>>

\* what ValidateForm returns for what Validate returned
formReturn(out) ==
    IF out.err # ErrNone
    THEN [ok |-> FALSE, status |-> FormStatus(out.err), err |-> out.err]
    ELSE [ok |-> out.ok, status |-> NoFormError, err |-> ErrNone]

\* a binding step that goes on to the validation pass whatever binding
\* returned
ValidateBindIgnoringError ==
    /\ fvPc = "made"
    /\ LET r == bindFormValues(fvDst, fvValues) IN
        /\ fvAfter' = r.fields
        /\ fvBound' = r.bound
        /\ fvPc' = "bound"
        /\ UNCHANGED <<fvOut, fvRet>>
    /\ UNCHANGED <<fvDst, fvValues, fvData, fvEvals,
                   vvVars, cvVars, pvVars, hdVars, rgVars, lkVars, fbVars>>

\* FormValidator.Validate, the binding pass (form.go 56-58): on an error
\* Validate returns (false, err) and ValidateForm wraps it
ValidateBind ==
    /\ fvPc = "made"
    /\ LET r == bindFormValues(fvDst, fvValues) IN
        /\ fvAfter' = r.fields
        /\ fvBound' = r.bound
        /\ IF r.err # NoFormErr
           THEN /\ fvOut' = [ok |-> FALSE, err |-> BindError(r.err)]
                /\ fvRet' = formReturn([ok |-> FALSE, err |-> BindError(r.err)])
                /\ fvPc' = "done"
           ELSE /\ fvPc' = "bound"
                /\ UNCHANGED <<fvOut, fvRet>>
    /\ UNCHANGED <<fvDst, fvValues, fvData, fvEvals,
                   vvVars, cvVars, pvVars, hdVars, rgVars, lkVars, fbVars>>

\* FormValidator.Validate, the validation pass (form.go 59):
\* tagex.ProcessStruct(dst, v.tags...) with the package's tag
ValidateProcess ==
    /\ fvPc = "bound"
    /\ LET r == ProcessStruct(ToData(fvAfter), <<Tag(tagKey, InitTable)>>)
           out == [ok |-> r.out.ok,
                   err |-> IF r.out.err = NilErr THEN ErrNone
                           ELSE TagError(r.out.err)]
       IN  /\ fvData' = ToData(fvAfter)
           /\ fvEvals' = r.evals
           /\ fvOut' = out
           /\ fvRet' = formReturn(out)
    /\ fvPc' = "done"
    /\ UNCHANGED <<fvDst, fvValues, fvAfter, fvBound,
                   vvVars, cvVars, pvVars, hdVars, rgVars, lkVars, fbVars>>

\* The records of the runs:
\*   A int `field:"a" val:"negint"`;  u int `field:"u"` (unexported);
\*   S, a struct, a pointer to one or a nil pointer, with or without
\*      `field:"s"`, holding
\*        B int `field:"b, required=true"`;
\*        P, a struct, a pointer to one or a nil pointer, holding
\*           C int `field:"c" val:"negint"`;
\*        N int (no tag);
\*   Z int `field:"z"`, or with the tag `field:"z, max=0"` or `field:"z,x"`.
\* Fields the caller can reach hold 3 before the call.
IntField(name, exported, tagged, tag, val, valTag) ==
    [name |-> name, exported |-> exported, tagged |-> tagged, tag |-> tag,
     kind |-> "int", val |-> val, valTag |-> valTag]
Container(name, how, tagged, tag, fields) ==
    [name |-> name, exported |-> TRUE, tagged |-> tagged, tag |-> tag,
     kind |-> IF how = "struct" THEN "struct" ELSE "ptrstruct",
     val |-> IF how = "struct" THEN fields
             ELSE [nil |-> (how = "nilptr"), fields |-> fields],
     valTag |-> ""]
Hows == {"struct", "ptr", "nilptr"}
ZTags == {<<"z">>, <<"z">> \o Pair(MaxParam, <<"0">>), <<"z", ",", "x">>}
Dst(sHow, sTagged, pHow, zTag) ==
    LET v == IF sHow = "nilptr" THEN 0 ELSE 3
        w == IF sHow = "nilptr" \/ pHow = "nilptr" THEN 0 ELSE 3
    IN  <<IntField(<<"A">>, TRUE, TRUE, <<"a">>, 3, "negint"),
          IntField(<<"u">>, FALSE, TRUE, <<"u">>, 3, ""),
          Container(<<"S">>, sHow, sTagged, <<"s">>,
              <<IntField(<<"B">>, TRUE, TRUE,
                         <<"b">> \o Pair(RequiredParam, <<"t", "r", "u", "e">>),
                         v, ""),
                Container(<<"P">>, pHow, FALSE, <<>>,
                    <<IntField(<<"C">>, TRUE, TRUE, <<"c">>, w, "negint")>>),
                IntField(<<"N">>, TRUE, FALSE, <<>>, v, "")>>),
          IntField(<<"Z">>, TRUE, TRUE, zTag, 3, "")>>

\* the form values: per key one text or none, for z also two values
FormKeys == {<<"a">>, <<"u">>, <<"s">>, <<"b">>, <<"c">>, <<"z">>, <<"N">>}
TextsFor(k, sTagged) ==
    CASE k = <<"a">> -> {<<>>, <<"0">>, <<"x">>}
      [] k = <<"u">> -> {<<"7">>}
      [] k = <<"s">> -> IF sTagged THEN {<<>>, <<"7">>} ELSE {<<>>}
      [] k = <<"b">> -> {<<>>, <<"0">>, <<"x">>}
      [] k = <<"c">> -> {<<>>, <<"0">>, <<"x">>}
      [] k = <<"z">> -> {<<>>, <<"7">>, <<"x">>, <<"7", "7">>}
      [] k = <<"N">> -> {<<"7">>}
ValuesOf(choice) ==
    [k \in {x \in FormKeys : choice[x] # <<>>} |->
        IF choice[k] = <<"7", "7">> THEN <<<<"7">>, <<"7">>>> ELSE <<choice[k]>>]
FormValues(sTagged) ==
    {ValuesOf([k \in FormKeys |->
                  CASE k = <<"a">> -> a [] k = <<"s">> -> t [] k = <<"b">> -> b
                    [] k = <<"c">> -> c [] k = <<"z">> -> z [] OTHER -> <<"7">>]) :
        a \in TextsFor(<<"a">>, sTagged), t \in TextsFor(<<"s">>, sTagged),
        b \in TextsFor(<<"b">>, sTagged), c \in TextsFor(<<"c">>, sTagged),
        z \in TextsFor(<<"z">>, sTagged)}

InitValidateForm ==
    /\ \E sHow \in Hows, sTagged \in BOOLEAN, pHow \in Hows, zTag \in ZTags :
          /\ sHow = "nilptr" => pHow # "ptr"
          /\ fvDst = Dst(sHow, sTagged, pHow, zTag)
          /\ fvValues \in FormValues(sTagged)
    /\ fvPc = "start"
    /\ fvAfter = fvDst
    /\ fvBound = <<>>
    /\ fvData = <<>>
    /\ fvEvals = <<>>
    /\ fvOut = NotReturned
    /\ fvRet = [ok |-> FALSE, status |-> NoFormError, err |-> ErrNone]
    /\ vvIdle /\ cvIdle /\ pvIdle /\ hdIdle /\ rgIdle /\ lkIdle /\ fbIdle

NextValidateForm == NewFormValidator \/ ValidateBind \/ ValidateProcess

SpecValidateForm == InitValidateForm /\ [][NextValidateForm]_vars

\* What a call met. The fields of the records by their places.
fvRan == fvPc = "bound" \/ (fvPc = "done" /\ ~fvRet.err.parse)
fvBindErr == fvOut.err.bind
fvFailed == fvPc = "done" /\ fvBindErr # NoFormErr
SOf(rec) == rec[3]
ZOf(rec) == rec[4]
StructOf(f) == IF f.kind = "struct" THEN f.val ELSE f.val.fields
POf(rec) == StructOf(SOf(rec))[2]
IsNilPtr(f) == f.kind = "ptrstruct" /\ f.val.nil
\* the int fields by name, and their values in a record
Ints == {"A", "u", "B", "C", "N", "Z"}
IntOf(rec, name) ==
    CASE name = "A" -> rec[1].val
      [] name = "u" -> rec[2].val
      [] name = "B" -> StructOf(SOf(rec))[1].val
      [] name = "C" -> StructOf(POf(rec))[1].val
      [] name = "N" -> StructOf(SOf(rec))[3].val
      [] name = "Z" -> ZOf(rec).val
\* declaration order, depth first
Order == <<"A", "u", "S", "B", "C", "N", "Z">>
Place(name) == CHOOSE i \in 1..Len(Order) : Order[i] = name
\* the dotted name of each field from the root
FullPath(name) ==
    CASE name = "A" -> <<"A">>
      [] name = "u" -> <<"u">>
      [] name = "S" -> <<"S">>
      [] name = "B" -> <<"S", ".", "B">>
      [] name = "C" -> <<"S", ".", "P", ".", "C">>
      [] name = "N" -> <<"S", ".", "N">>
      [] name = "Z" -> <<"Z">>
\* the first text the form holds under a key (empty: none)
Supplied(k) == IF k \in DOMAIN fvValues THEN fvValues[k][1] ELSE <<>>
Count(k) == IF k \in DOMAIN fvValues THEN Len(fvValues[k]) ELSE 0
\* the field is one binding gets to when nothing before it fails
Reachable(name) ==
    CASE name \in {"B", "N"} -> ~IsNilPtr(SOf(fvDst))
      [] name = "C" -> ~IsNilPtr(SOf(fvDst)) /\ ~IsNilPtr(POf(fvDst))
      [] OTHER -> TRUE
\* the cause binding the field fails with, Nil when it binds
CauseAt(name) ==
    CASE name = "A" -> IF Supplied(<<"a">>) = <<"x">> THEN ParseIntErr ELSE Nil
      [] name = "S" -> IF SOf(fvDst).tagged /\ Supplied(<<"s">>) # <<>>
                       THEN "unsupported field type %s" ELSE Nil
      [] name = "B" -> IF Supplied(<<"b">>) = <<>> THEN ErrFieldRequired
                       ELSE IF Supplied(<<"b">>) = <<"x">> THEN ParseIntErr ELSE Nil
      [] name = "C" -> IF Supplied(<<"c">>) = <<"x">> THEN ParseIntErr ELSE Nil
      [] name = "Z" ->
            IF ZOf(fvDst).tag = <<"z", ",", "x">> THEN MalformedPair
            ELSE IF Supplied(<<"z">>) = <<>> THEN Nil
            ELSE IF ZOf(fvDst).tag # <<"z">> THEN "invalid max %q"
            ELSE IF Count(<<"z">>) > 1 THEN TooMany
            ELSE IF Supplied(<<"z">>) = <<"x">> THEN ParseIntErr ELSE Nil
      [] OTHER -> Nil
Failing == {name \in {"A", "S", "B", "C", "Z"} : Reachable(name) /\ CauseAt(name) # Nil}
FirstFailing == CHOOSE f \in Failing : \A g \in Failing : Place(f) <= Place(g)

\* the first failing field in declaration order is the one reported
FirstFailureReported ==
    fvRan =>
        IF Failing = {} THEN fvBindErr = NoFormErr /\ fvPc # "made"
        ELSE fvBindErr = [field |-> FullPath(FirstFailing),
                          cause |-> CauseAt(FirstFailing)]

\* C23: every binding error is qualified with the dot-joined field names
\* from the root record down to the failing field, at any depth, through
\* struct-valued and pointer-to-struct fields; a top-level field is reported
\* by its bare name.
C23_ErrorsCarryDottedPath ==
    fvFailed =>
        \E name \in Failing :
            /\ fvBindErr.field = FullPath(name)
            /\ fvBindErr.cause = CauseAt(name)

\* an error three levels down, through a pointer and then a struct value
C23_Witness ==
    /\ fvFailed
    /\ fvBindErr.field = <<"S", ".", "P", ".", "C">>
    /\ SOf(fvDst).kind = "ptrstruct" /\ POf(fvDst).kind = "struct"

\* the number a supplied text converts to
NumberOf(text) == Atoi(text).val
KeyOf(name) ==
    CASE name = "A" -> <<"a">> [] name = "B" -> <<"b">>
      [] name = "C" -> <<"c">> [] name = "Z" -> <<"z">>
\* binding got past the field: no failure, or a failure further on
Past(name) == Failing = {} \/ Place(name) < Place(FirstFailing)
\* the places of the fields binding handled, in the order it handled them
BoundPlaces ==
    [i \in 1..Len(fvBound) |->
        CHOOSE n \in 1..Len(Order) : FullPath(Order[n]) = fvBound[i]]

\* C29: binding visits exported fields in declaration order, depth first,
\* and stops at the first error: fields after the failing one are not
\* modified, unexported fields and fields without a `field` tag are never
\* modified, and fields bound before the failure keep their new values.
C29_DeclarationOrderNoRollback ==
    fvRan =>
        /\ \A i \in 1..Len(fvBound) :
              /\ \E n \in 1..Len(Order) : FullPath(Order[n]) = fvBound[i]
              /\ i > 1 => BoundPlaces[i - 1] < BoundPlaces[i]
        /\ IntOf(fvAfter, "u") = IntOf(fvDst, "u")
        /\ IntOf(fvAfter, "N") = IntOf(fvDst, "N")
        /\ Failing # {} =>
              /\ fvBindErr.field = FullPath(FirstFailing)
              /\ \A name \in Ints :
                    Place(name) > Place(FirstFailing)
                        => IntOf(fvAfter, name) = IntOf(fvDst, name)
        /\ \A name \in {"A", "B", "C", "Z"} :
              (Reachable(name) /\ Past(name) /\ Supplied(KeyOf(name)) # <<>>)
                  => IntOf(fvAfter, name) = NumberOf(Supplied(KeyOf(name)))

\* a failure at Z after A and S.B were bound to new values, the unexported
\* and the untagged field as they were
C29_Witness ==
    /\ fvFailed /\ fvBindErr.field = <<"Z">>
    /\ IntOf(fvDst, "A") = 3 /\ IntOf(fvAfter, "A") = 0
    /\ IntOf(fvDst, "B") = 3 /\ IntOf(fvAfter, "B") = 0
    /\ IntOf(fvAfter, "u") = 3 /\ IntOf(fvAfter, "N") = 3
    /\ Supplied(<<"u">>) = <<"7">> /\ Supplied(<<"N">>) = <<"7">>

\* a failure at S.B with A bound before it and S.P.C, Z supplied after it
FailureInTheMiddle ==
    /\ fvFailed /\ fvBindErr.field = <<"S", ".", "B">>
    /\ IntOf(fvAfter, "A") = 0
    /\ Reachable("C") /\ Supplied(<<"c">>) = <<"0">> /\ IntOf(fvAfter, "C") = 3
    /\ Supplied(<<"z">>) = <<"7">> /\ IntOf(fvAfter, "Z") = 3

\* C30: a nil pointer to a struct is skipped: none of the struct's fields
\* is bound and a required field inside it gives no 'field is required'
\* error; a struct value and a non-nil pointer to a struct are descended
\* into and their required fields enforced.
C30_NilPointerSkipped ==
    fvRan =>
        /\ IsNilPtr(SOf(fvDst)) =>
              /\ \A name \in {"B", "C", "N"} :
                    IntOf(fvAfter, name) = IntOf(fvDst, name)
              /\ fvBindErr.field \notin {FullPath("B"), FullPath("C")}
              /\ (fvBindErr = NoFormErr) => IsNilPtr(SOf(fvAfter))
        /\ (~IsNilPtr(SOf(fvDst)) /\ IsNilPtr(POf(fvDst))) =>
              /\ IntOf(fvAfter, "C") = IntOf(fvDst, "C")
              /\ fvBindErr.field # FullPath("C")
              /\ IsNilPtr(POf(fvAfter))
        /\ (~IsNilPtr(SOf(fvDst)) /\ CauseAt("A") = Nil /\ CauseAt("S") = Nil
              /\ Supplied(<<"b">>) = <<>>) =>
              fvBindErr = [field |-> FullPath("B"), cause |-> ErrFieldRequired]
        /\ (~IsNilPtr(SOf(fvDst)) /\ CauseAt("A") = Nil /\ CauseAt("S") = Nil
              /\ Supplied(<<"b">>) = <<"0">>) =>
              IntOf(fvAfter, "B") = 0

\* a finished call on a record whose S is a nil pointer, no value for the
\* required S.B in the form, and no binding error
C30_Witness ==
    /\ fvPc = "done" /\ fvRan
    /\ IsNilPtr(SOf(fvDst)) /\ ~SOf(fvDst).tagged
    /\ Supplied(<<"b">>) = <<>>
    /\ fvBindErr = NoFormErr
    /\ IsNilPtr(SOf(fvAfter))

\* the required field enforced through a non-nil pointer
RequiredThroughPointer ==
    /\ fvFailed /\ SOf(fvDst).kind = "ptrstruct" /\ ~IsNilPtr(SOf(fvDst))
    /\ fvBindErr = [field |-> FullPath("B"), cause |-> ErrFieldRequired]

\* the value a field holds once binding is through with it
Expected(name) ==
    IF Supplied(KeyOf(name)) # <<>> THEN NumberOf(Supplied(KeyOf(name)))
    ELSE IntOf(fvDst, name)
\* the leaves the validation pass was handed, and the one at a path
fvLeaves == Flatten(fvData, <<>>)
LeafAt(path) == {i \in 1..Len(fvLeaves) : fvLeaves[i].path = path}
PathA == <<<<"A">>>>
PathC == <<<<"S">>, <<"P">>, <<"C">>>>

\* C25: Validate runs the binding pass over the whole record before the
\* validation pass starts: when binding fails for any field no validation
\* directive is evaluated and the binding error is returned with ok = false;
\* the directives only see values of a completed binding pass.
C25_BindingBeforeValidation ==
    /\ fvFailed =>
          /\ fvEvals = <<>> /\ fvData = <<>>
          /\ Failing # {}
          /\ fvOut = [ok |-> FALSE, err |-> BindError(fvBindErr)]
          /\ ~fvRet.ok /\ fvRet.err = fvOut.err
    /\ (fvEvals # <<>> \/ fvData # <<>>) =>
          /\ fvPc = "done" /\ Failing = {} /\ fvBindErr = NoFormErr
          /\ fvAfter = bindFormValues(fvDst, fvValues).fields
          /\ \A i \in LeafAt(PathA) : fvLeaves[i].val = Expected("A")
          /\ \A i \in LeafAt(PathC) : fvLeaves[i].val = Expected("C")
          /\ LeafAt(PathA) # {}
          /\ (LeafAt(PathC) # {}) = Reachable("C")
          /\ \A i \in 1..Len(fvEvals) : LeafAt(fvEvals[i][1]) # {}
    /\ (fvPc = "done" /\ fvRan /\ Failing = {}) => fvEvals # <<>>

\* both directives evaluated on values the binding pass wrote: A and S.P.C
\* held 3 before the call, which their directives reject, and the form's 0
\* after binding, which they accept
C25_Witness ==
    /\ fvPc = "done" /\ Len(fvEvals) = 2 /\ fvOut.ok
    /\ IntOf(fvDst, "A") = 3 /\ IntOf(fvDst, "C") = 3
    /\ \A i \in LeafAt(PathA) \cup LeafAt(PathC) : fvLeaves[i].val = 0

\* a binding failure at the last field of a record whose first field the
\* validation pass would have rejected: the binding error is what returns
BindingErrorWins ==
    /\ fvFailed /\ fvBindErr.field = <<"Z">> /\ fvEvals = <<>>
    /\ Supplied(<<"a">>) = <<>> /\ IntOf(fvAfter, "A") = 3

\* the causes of binding errors that are tag-structure and type errors
StructuralCauses ==
    {MalformedPair, "invalid max %q", ParseIntErr, "unsupported field type %s",
     TooMany}
\* the directives of the record accept the values binding leaves
DirectivesAccept ==
    /\ Expected("A") <= 0
    /\ Reachable("C") => Expected("C") <= 0
\* what ValidateForm returned is a FormError with this status
FormErrorWith(status) ==
    /\ ~fvRet.ok /\ fvRet.err # ErrNone /\ fvRet.status = status

\* C21: ValidateForm reports every failure as a FormError with a status:
\* 400 for request-parse, tag-structure and type errors (malformed field
\* tag, invalid max, unconvertible value, unsupported field kind, too many
\* values), 422 for a failed validation directive and for a missing
\* required field; FormStatus(nil) is 200; the error is nil only when
\* binding and validation both succeeded.
C21_FormStatusMapping ==
    /\ FormStatus(ErrNone) = 200
    /\ fvPc = "done" =>
          /\ ~fvRan => /\ FormErrorWith(400)
                       /\ fvRet.err = ParseError
          /\ (fvRan /\ Failing # {}) =>
                /\ fvRet.err = BindError([field |-> FullPath(FirstFailing),
                                          cause |-> CauseAt(FirstFailing)])
                /\ CauseAt(FirstFailing) \in StructuralCauses
                      => FormErrorWith(400)
                /\ CauseAt(FirstFailing) = ErrFieldRequired
                      => FormErrorWith(422)
                /\ CauseAt(FirstFailing) \in StructuralCauses \cup {ErrFieldRequired}
          /\ (fvRan /\ Failing = {} /\ ~DirectivesAccept) =>
                /\ FormErrorWith(422)
                /\ fvRet.err.tag # NilErr /\ fvRet.err.bind = NoFormErr
          /\ (fvRan /\ Failing = {} /\ DirectivesAccept) =>
                fvRet = [ok |-> TRUE, status |-> NoFormError, err |-> ErrNone]
          /\ (fvRet.err = ErrNone) =
                (fvRan /\ Failing = {} /\ DirectivesAccept)

\* a form that binds and whose value a directive rejects: 422
C21_Witness ==
    /\ fvPc = "done" /\ fvRan /\ Failing = {}
    /\ Supplied(<<"a">>) = <<"0">> /\ Reachable("C") /\ Supplied(<<"c">>) = <<>>
    /\ FormErrorWith(422) /\ fvRet.err.tag # NilErr

\* the other statuses: a missing required field, each structural cause, a
\* request that does not parse, and a call without an error
StatusOfRequired ==
    /\ fvFailed /\ fvBindErr.cause = ErrFieldRequired /\ FormErrorWith(422)
StatusOfMalformedTag ==
    /\ fvFailed /\ fvBindErr.cause = MalformedPair /\ FormErrorWith(400)
StatusOfInvalidMax ==
    /\ fvFailed /\ fvBindErr.cause = "invalid max %q" /\ FormErrorWith(400)
StatusOfUnconvertible ==
    /\ fvFailed /\ fvBindErr.cause = ParseIntErr /\ FormErrorWith(400)
StatusOfUnsupportedKind ==
    /\ fvFailed /\ fvBindErr.cause = "unsupported field type %s" /\ FormErrorWith(400)
StatusOfTooMany ==
    /\ fvFailed /\ fvBindErr.cause = TooMany /\ FormErrorWith(400)
StatusOfParseFailure ==
    /\ fvPc = "done" /\ fvRet.err = ParseError /\ FormErrorWith(400)
NoErrorReturned ==
    /\ fvPc = "done" /\ fvRet.ok /\ fvRet.err = ErrNone

====
